---- MODULE Spec2Model ----
(***************************************************************************)
(* A model of the reminder scheduler (src/src/scheduler/parser.js, which   *)
(* holds the time parser and the SchedulerManager), of the reminder part   *)
(* of the MemoryStore (src/unnamed/part_010), of the TriggerService        *)
(* (src/src/triggers/trigger-service.js) and of the ClaudeService          *)
(* (src/src/service.js) with the APIKeyManager (src/src/auth/api-key.js).  *)
(*                                                                         *)
(* Time is in milliseconds.  A text is a sequence of tokens: a word or a   *)
(* number with its digit count; whitespace between tokens is implied.      *)
(* A regular expression of the source is modelled on tokens: a literal or  *)
(* an alternation followed by "s?" matches the tokens that start with it.  *)
(***************************************************************************)
EXTENDS Integers, Sequences, FiniteSets, Bags, TLC

VARIABLES
    now,          \* the wall clock, Date.now() and SQLite's 'now', in ms
    result,       \* what the last API call returned or threw
    \* ---- SchedulerManager and the reminders table
    reminders,    \* the rows of table reminders; the row id is the index
    running,      \* SchedulerManager.running
    mainInterval, \* SchedulerManager.mainInterval: 0 (null) or a timer handle
    pollTimers,   \* the live setInterval timers that call checkDueReminders
    cronJobs,     \* SchedulerManager.cronJobs: the ids in the Map
    cronLive,     \* the bag of ids with a live (not stopped) node-cron task
    alertHandler, \* SchedulerManager.alertHandler: "none" (null) or "set"
    checks,       \* the checkDueReminders calls suspended at their await
    alertCount,   \* per reminder id, how often alertHandler was invoked (0, 1, 2+)
    \* ---- TriggerService
    objs,         \* the job objects of the heap, by slot
    jobs,         \* TriggerService.jobs: name -> index in objs, 0 if absent
    started,      \* TriggerService.started
    timers,       \* the bag of live setInterval timers of _startJob
    immediates,   \* the pending setImmediate callbacks of _startJob
    execs,        \* the _executeJob calls suspended at await job.handler()
    okCount,      \* per job object, the handler runs that completed
    \* ---- ClaudeService
    remoteMode,        \* ClaudeService.remoteMode
    listening,         \* the TCP server accepts connections
    ptyProcess,        \* ClaudeService.ptyProcess: 0 (null) or the process spawned
    alive,             \* the spawned Claude processes that have not exited
    spawnCount,        \* how many processes pty.spawn has started
    restartAttempts,   \* ClaudeService.restartAttempts
    lastRestartTime,   \* ClaudeService.lastRestartTime
    isShuttingDown,    \* ClaudeService.isShuttingDown
    restartTimers,     \* the pending setTimeout callbacks of handleClaudeExit, by due time
    claudeReady,       \* ClaudeService.claudeReady
    lastOutputTime,    \* ClaudeService.lastOutputTime
    readyCheckInterval,\* ClaudeService.readyCheckInterval is set (not null)
    commandQueue,      \* ClaudeService.commandQueue
    enterTimers,       \* the pending setTimeout callbacks of executeCommand
    written,           \* the ptyProcess.write calls so far, in order
    clients,           \* per client id: its socket and its entry of ClaudeService.clients
    clientIdCounter,   \* ClaudeService.clientIdCounter
    endTimers,         \* the client ids with a pending setTimeout of handleAuth
    sentCount,         \* how many 'command' and 'input' messages clients have sent
    apiKeys            \* APIKeyManager.keys: name -> hash and lastUsed

schedVars == <<reminders, running, mainInterval, pollTimers, cronJobs,
               cronLive, alertHandler, checks, alertCount>>
trigVars == <<objs, jobs, started, timers, immediates, execs, okCount>>
svcVars == <<remoteMode, listening, ptyProcess, alive, spawnCount, restartAttempts,
             lastRestartTime, isShuttingDown, restartTimers, claudeReady,
             lastOutputTime, readyCheckInterval, commandQueue, enterTimers,
             written, clients, clientIdCounter, endTimers, sentCount, apiKeys>>
vars == <<now, result, schedVars, trigVars, svcVars>>

NULL == [k |-> "null"]

\* ------------------------------------------------------------------ bounds
MaxClock == 1
MaxReminders == 2
MaxChecks == 2
MaxObjs == 1
MaxExecs == 2
MaxRuns == 2
MaxImmediates == 1
MaxSpawns == 12
MaxClients == 2
MaxSent == 2
RestartHorizon == 65000
CommandHorizon == 15000

ClockStep == 1 * 1000

RESTART_DELAY == 2000
MAX_RESTART_ATTEMPTS == 10
RESTART_RESET_TIME == 60000

\* ------------------------------------------------------------------ texts
W(s) == [k |-> "w", s |-> s, n |-> 0, d |-> 0]
N(v, digits) == [k |-> "n", s |-> "", n |-> v, d |-> digits]

IsWord(t, ws) == t.k = "w" /\ t.s \in ws
IsNum(t) == t.k = "n"

\* String.prototype.toLowerCase on the words the inputs use
toLowerCase(text) ==
    [i \in DOMAIN text |->
        IF text[i].k = "w" /\ text[i].s = "Every" THEN W("every")
        ELSE IF text[i].k = "w" /\ text[i].s = "In" THEN W("in")
        ELSE text[i]]

Min(a, b) == IF a < b THEN a ELSE b

\* ------------------------------------------------------------- time parser
SecondMs == 1000
MinuteMs == 60 * 1000
HourMs == 60 * 60 * 1000
DayMs == 24 * 60 * 60 * 1000
WeekMs == 7 * 24 * 60 * 60 * 1000

\* the number of decimal digits of v, as a template literal prints it
RECURSIVE Digits(_)
Digits(v) == IF v < 10 THEN 1 ELSE 1 + Digits(v \div 10)

\* the value of the first two digits of a number token of more than two
RECURSIVE FirstTwo(_, _)
FirstTwo(v, d) == IF d <= 2 THEN v ELSE FirstTwo(v \div 10, d - 1)

MinuteWords == {"minute", "minutes"}
HourWords == {"hour", "hours", "hourly"}
SecondWords == {"second", "seconds"}
DayWords == {"day", "days"}
WeekWords == {"week", "weeks"}

Tok(text, i) == IF i \in DOMAIN text THEN text[i] ELSE W("")

\* the leftmost of the positions where a pattern matches, 0 if none
FirstMatch(positions) ==
    IF positions = {} THEN 0
    ELSE CHOOSE i \in positions : \A j \in positions : i <= j

\* (\d{1,2})(?::(\d{2}))?\s*(am|pm)? at position p
TimeAt(text, p) ==
    LET h == Tok(text, p)
        c == Tok(text, p + 1)
        m == Tok(text, p + 2)
        hasMin == h.d <= 2 /\ IsWord(c, {":"}) /\ IsNum(m) /\ m.d >= 2
        a == IF hasMin THEN Tok(text, p + 3) ELSE c
        hasAmpm == /\ h.d <= 2
                   /\ IF hasMin THEN m.d = 2 ELSE TRUE
                   /\ IsWord(a, {"am", "pm"})
    IN  [hour |-> FirstTwo(h.n, h.d),
         minute |-> IF hasMin THEN FirstTwo(m.n, m.d) ELSE 0,
         ampm |-> IF hasAmpm THEN a.s ELSE "undefined"]

\* the hour as written, whatever am or pm says
Hour24_literal(t) == t.hour

\* the hour after the am/pm adjustment
Hour24(t) ==
    LET h1 == IF t.ampm = "pm" /\ t.hour < 12 THEN t.hour + 12 ELSE t.hour
    IN  IF t.ampm = "am" /\ h1 = 12 THEN 0 ELSE h1

\* "<displayHour>:<minute padded to two digits> AM|PM"
formatTime(hour, minute) ==
    LET displayHour == IF hour % 12 = 0 THEN 12 ELSE hour % 12
    IN  <<N(displayHour, Digits(displayHour)), W(":"),
          N(minute, IF minute < 10 THEN 2 ELSE Digits(minute)),
          W(IF hour >= 12 THEN "PM" ELSE "AM")>>

CStar == <<W("*")>>
CNum(v) == <<N(v, Digits(v))>>
\* a step printed without its "*/"
CStep_plain(v) == <<N(v, Digits(v))>>
CStep(v) == <<W("*"), W("/"), N(v, Digits(v))>>
CRange(a, b) == <<N(a, Digits(a)), W("-"), N(b, Digits(b))>>

EveryNAt(text, i) ==
    /\ IsWord(Tok(text, i), {"every"})
    /\ IsNum(Tok(text, i + 1))
    /\ IsWord(Tok(text, i + 2), MinuteWords \cup HourWords)

EveryHourAt(text, i) ==
    /\ IsWord(Tok(text, i), {"every"})
    /\ IsWord(Tok(text, i + 1), HourWords)

EveryDayAt(text, i) ==
    /\ IsWord(Tok(text, i), {"every"})
    /\ IsWord(Tok(text, i + 1), {"day"})
    /\ IsWord(Tok(text, i + 2), {"at"})
    /\ IsNum(Tok(text, i + 3))

EveryWeekdayAt(text, i) ==
    /\ IsWord(Tok(text, i), {"every"})
    /\ IsWord(Tok(text, i + 1), {"weekday"})
    /\ IsWord(Tok(text, i + 2), {"at"})
    /\ IsNum(Tok(text, i + 3))

\* dayMap in the order Object.entries gives it
dayNames ==
    <<"sunday", "sun", "monday", "mon", "tuesday", "tue", "wednesday", "wed",
      "thursday", "thu", "friday", "fri", "saturday", "sat">>
dayMap == [k \in DOMAIN dayNames |-> <<dayNames[k], (k - 1) \div 2>>]

EveryNamedDayAt(text, i, dayName) ==
    /\ IsWord(Tok(text, i), {"every"})
    /\ IsWord(Tok(text, i + 1), {dayName})
    /\ IsWord(Tok(text, i + 2), {"at"})
    /\ IsNum(Tok(text, i + 3))

parseCronPattern(text) ==
    LET lowerText == toLowerCase(text)
        m1 == FirstMatch({i \in DOMAIN lowerText : EveryNAt(lowerText, i)})
        m2 == FirstMatch({i \in DOMAIN lowerText : EveryHourAt(lowerText, i)})
        m3 == FirstMatch({i \in DOMAIN lowerText : EveryDayAt(lowerText, i)})
        m4 == FirstMatch({i \in DOMAIN lowerText : EveryWeekdayAt(lowerText, i)})
        days == {k \in DOMAIN dayMap :
                    \E i \in DOMAIN lowerText :
                        EveryNamedDayAt(lowerText, i, dayMap[k][1])}
    IN  IF m1 # 0 THEN
            LET value == lowerText[m1 + 1].n
            IN  IF lowerText[m1 + 2].s \in MinuteWords
                THEN [cron |-> <<CStep(value), CStar, CStar, CStar, CStar>>,
                      description |-> <<W("Every"), N(value, Digits(value)), W("minute(s)")>>]
                ELSE [cron |-> <<CNum(0), CStep(value), CStar, CStar, CStar>>,
                      description |-> <<W("Every"), N(value, Digits(value)), W("hour(s)")>>]
        ELSE IF m2 # 0 THEN
            [cron |-> <<CNum(0), CStar, CStar, CStar, CStar>>,
             description |-> <<W("Every hour")>>]
        ELSE IF m3 # 0 THEN
            LET t == TimeAt(lowerText, m3 + 3)
            IN  [cron |-> <<CNum(t.minute), CNum(Hour24(t)), CStar, CStar, CStar>>,
                 description |-> <<W("Every day at")>> \o formatTime(Hour24(t), t.minute)]
        ELSE IF m4 # 0 THEN
            LET t == TimeAt(lowerText, m4 + 3)
            IN  [cron |-> <<CNum(t.minute), CNum(Hour24(t)), CStar, CStar, CRange(1, 5)>>,
                 description |-> <<W("Every weekday at")>> \o formatTime(Hour24(t), t.minute)]
        ELSE IF days # {} THEN
            LET k == CHOOSE k \in days : \A k2 \in days : k <= k2
                m5 == FirstMatch({i \in DOMAIN lowerText :
                                     EveryNamedDayAt(lowerText, i, dayMap[k][1])})
                t == TimeAt(lowerText, m5 + 3)
            IN  [cron |-> <<CNum(t.minute), CNum(Hour24(t)), CStar, CStar,
                            CNum(dayMap[k][2])>>,
                 description |-> <<W("Every"), W(dayMap[k][1]), W("at")>>
                                   \o formatTime(Hour24(t), t.minute)]
        ELSE NULL

RelativeAt(text, i) ==
    /\ IsWord(Tok(text, i), {"in"})
    /\ IsNum(Tok(text, i + 1))
    /\ IsWord(Tok(text, i + 2),
              SecondWords \cup MinuteWords \cup HourWords \cup DayWords \cup WeekWords)

\* a parseRelativeTime that counts every unit as seconds
parseRelativeTime_seconds(text, clock) ==
    LET lowerText == toLowerCase(text)
        m == FirstMatch({i \in DOMAIN lowerText : RelativeAt(lowerText, i)})
    IN  IF m = 0 THEN NULL
        ELSE [time |-> clock + lowerText[m + 1].n * SecondMs]

\* the Date of "in N <unit>", NULL when the text has no such phrase
parseRelativeTime(text, clock) ==
    LET lowerText == toLowerCase(text)
        m == FirstMatch({i \in DOMAIN lowerText : RelativeAt(lowerText, i)})
    IN  IF m = 0 THEN NULL
        ELSE LET value == lowerText[m + 1].n
                 unit == lowerText[m + 2].s
             IN  [time |->
                    IF unit \in SecondWords THEN clock + value * SecondMs
                    ELSE IF unit \in MinuteWords THEN clock + value * MinuteMs
                    ELSE IF unit \in HourWords THEN clock + value * HourMs
                    ELSE IF unit \in DayWords THEN clock + value * DayMs
                    ELSE clock + value * WeekMs]

\* the day of the month of an instant, in a calendar of 31-day months whose
\* instant 0 opens a 30th, so that a month ends among the small instants
getDate(ms) == ((ms \div DayMs + 29) % 31) + 1

\* a setDate that leaves the instant where it is
setDate_same(ms, d) == ms

\* Date.prototype.setDate: the instant moved to day d of its month, a day
\* past the end of the month running into the next month
setDate(ms, d) == ms + (d - getDate(ms)) * DayMs

\* chrono.parse(text, referenceDate): the phrases "tomorrow", "now" and
\* "yesterday"; the result list is empty for any other text
chronoParse(text, referenceDate) ==
    LET known == {i \in DOMAIN text : IsWord(text[i], {"tomorrow", "now", "yesterday"})}
    IN  IF known = {} THEN << >>
        ELSE LET i == CHOOSE i \in known : \A j \in known : i <= j
                 d == IF text[i].s = "tomorrow" THEN referenceDate + DayMs
                      ELSE IF text[i].s = "now" THEN referenceDate
                      ELSE IF referenceDate >= DayMs THEN referenceDate - DayMs
                      ELSE 0
             IN  << [date |-> d, day |-> getDate(d), text |-> <<text[i]>>] >>

parseTime(text, referenceDate, clock) ==
    LET cronResult == parseCronPattern(text)
        results == chronoParse(text, referenceDate)
    IN  IF cronResult # NULL
        THEN [type |-> "recurring", cron |-> cronResult.cron,
              description |-> cronResult.description]
        ELSE IF Len(results) = 0 THEN NULL
        ELSE LET r == results[1]
                 parsedDate ==
                    IF r.date <= clock /\ r.day = getDate(referenceDate)
                    THEN setDate(r.date, getDate(r.date) + 1)
                    ELSE r.date
             IN  [type |-> "once", date |-> parsedDate, text |-> r.text]

\* a parseReminderTime that looks for a recurring pattern before a relative one
parseReminderTime_cronFirst(text, clock) ==
    LET relativeDate == parseRelativeTime(text, clock)
    IN  IF parseCronPattern(text) # NULL THEN parseTime(text, clock, clock)
        ELSE IF relativeDate # NULL
        THEN [type |-> "once", date |-> relativeDate.time, text |-> text]
        ELSE parseTime(text, clock, clock)

parseReminderTime(text, clock) ==
    LET relativeDate == parseRelativeTime(text, clock)
    IN  IF relativeDate # NULL
        THEN [type |-> "once", date |-> relativeDate.time, text |-> text]
        ELSE parseTime(text, clock, clock)

\* one item of a cron list at position p: \d+(-\d+)? ; the position after it,
\* 0 when there is none
CronItemEnd(f, p) ==
    IF ~IsNum(Tok(f, p)) THEN 0
    ELSE IF IsWord(Tok(f, p + 1), {"-"}) /\ IsNum(Tok(f, p + 2)) THEN p + 3
    ELSE p + 1

\* (\d+(-\d+)?)(,\d+(-\d+)?)*$ from position p
RECURSIVE CronListFrom(_, _)
CronListFrom(f, p) ==
    LET e == CronItemEnd(f, p)
    IN  IF e = 0 THEN FALSE
        ELSE IF e = Len(f) + 1 THEN TRUE
        ELSE IsWord(Tok(f, e), {","}) /\ CronListFrom(f, e + 1)

\* /^(\*|(\d+|\*)(\/\d+)?|(\d+(-\d+)?)(,\d+(-\d+)?)*)$/
CronFieldOk(f) ==
    \/ f = <<W("*")>>
    \/ /\ Len(f) \in {1, 3}
       /\ IsNum(f[1]) \/ IsWord(f[1], {"*"})
       /\ Len(f) = 3 => IsWord(f[2], {"/"}) /\ IsNum(f[3])
    \/ CronListFrom(f, 1)

\* a cron expression as the string the template literals of parseCronPattern
\* build: its fields with one space between them
RECURSIVE CronString(_)
CronString(fields) ==
    IF fields = << >> THEN << >>
    ELSE IF Len(fields) = 1 THEN fields[1]
    ELSE fields[1] \o <<W(" ")>> \o CronString(Tail(fields))

IsSpace(t) == t.k = "w" /\ t.s = " "

\* the string left as it is
trim_none(s) == s

\* String.prototype.trim
RECURSIVE trim(_)
trim(s) ==
    IF s = << >> THEN s
    ELSE IF IsSpace(Head(s)) THEN trim(Tail(s))
    ELSE IF IsSpace(s[Len(s)]) THEN trim(SubSeq(s, 1, Len(s) - 1))
    ELSE s

\* String.prototype.split(/\s+/): a string without whitespace is one part,
\* the empty string included
RECURSIVE split(_)
split(s) ==
    LET spaces == {i \in DOMAIN s : IsSpace(s[i])}
    IN  IF spaces = {} THEN << s >>
        ELSE LET i == CHOOSE i \in spaces : \A j \in spaces : i <= j
                 rest == {j \in (i + 1)..Len(s) : ~IsSpace(s[j])}
                 j == IF rest = {} THEN Len(s) + 1
                      ELSE CHOOSE j \in rest : \A k \in rest : j <= k
             IN  << SubSeq(s, 1, i - 1) >> \o split(SubSeq(s, j, Len(s)))

isValidCron(expression) ==
    LET parts == split(trim(expression))
    IN  /\ Len(parts) = 5
        /\ \A i \in DOMAIN parts : CronFieldOk(parts[i])

\* node-cron's cron.schedule throws for an expression it cannot validate:
\* a plain number outside its field's range, or a step of 0
cronRanges == << <<0, 59>>, <<0, 23>>, <<1, 31>>, <<1, 12>>, <<0, 7>> >>
cronScheduleOk(expression) ==
    \A i \in DOMAIN expression :
        LET f == expression[i]
        IN  /\ Len(f) = 1 /\ IsNum(f[1]) =>
                  f[1].n >= cronRanges[i][1] /\ f[1].n <= cronRanges[i][2]
            /\ Len(f) = 3 /\ IsWord(f[2], {"/"}) => f[3].n >= 1

\* ------------------------------------------------------ results of a call
Ok(op) == [op |-> op, err |-> "", text |-> << >>]
Threw(op, message, text) == [op |-> op, err |-> message, text |-> text]

\* --------------------------------------------------------- reminder store
\* Date.prototype.toISOString, and SQLite's datetime() of it, which drops
\* the milliseconds
toISOString(ms) == [iso |-> ms]
datetime(ms) == ms \div 1000

\* INSERT INTO reminders; created_at (CURRENT_TIMESTAMP) is not kept: it
\* grows with the row id, and only an ORDER BY reads it
StoreAddReminder_dropCron(rs, message, triggerAt, cronExpression, channel) ==
    Append(rs, [message |-> message, trigger_at |-> triggerAt,
                cron_expression |-> NULL, channel |-> channel,
                status |-> "pending"])

StoreAddReminder(rs, message, triggerAt, cronExpression, channel) ==
    Append(rs, [message |-> message, trigger_at |-> triggerAt,
                cron_expression |-> cronExpression, channel |-> channel,
                status |-> "pending"])

\* the ids of set S in ascending order of key, ties in row order
RECURSIVE SortIds(_, _)
SortIds(S, key) ==
    IF S = {} THEN << >>
    ELSE LET m == CHOOSE i \in S :
                     \A j \in S : key[i] < key[j] \/ (key[i] = key[j] /\ i <= j)
         IN  <<m>> \o SortIds(S \ {m}, key)

\* a due query without "trigger_at IS NOT NULL": a row with no trigger time
\* counts as due
getDueReminders_anyRow(rs, clock) ==
    LET due == {i \in DOMAIN rs :
                    /\ rs[i].status = "pending"
                    /\ \/ rs[i].trigger_at = NULL
                       \/ datetime(rs[i].trigger_at.iso) <= datetime(clock)}
    IN  SortIds(due, [i \in due |-> IF rs[i].trigger_at = NULL THEN 0
                                     ELSE rs[i].trigger_at.iso])

\* a due query that returns the rows in row order
getDueReminders_inRowOrder(rs, clock) ==
    LET due == {i \in DOMAIN rs :
                    /\ rs[i].status = "pending"
                    /\ rs[i].trigger_at # NULL
                    /\ datetime(rs[i].trigger_at.iso) <= datetime(clock)}
    IN  SortIds(due, [i \in due |-> i])

getDueReminders(rs, clock) ==
    LET due == {i \in DOMAIN rs :
                    /\ rs[i].status = "pending"
                    /\ rs[i].trigger_at # NULL
                    /\ datetime(rs[i].trigger_at.iso) <= datetime(clock)}
    IN  SortIds(due, [i \in due |-> rs[i].trigger_at.iso])

\* a recurring query without "status = 'pending'"
getRecurringReminders_anyStatus(rs) ==
    LET rec == {i \in DOMAIN rs : rs[i].cron_expression # NULL}
    IN  SortIds(rec, [i \in rec |-> i])

getRecurringReminders(rs) ==
    LET rec == {i \in DOMAIN rs :
                    rs[i].status = "pending" /\ rs[i].cron_expression # NULL}
    IN  SortIds(rec, [i \in rec |-> i])

\* UPDATE reminders SET status = ... WHERE id = ?
SetStatus(rs, id, status) ==
    [i \in DOMAIN rs |-> IF i = id THEN [rs[i] EXCEPT !.status = status] ELSE rs[i]]

\* a completion that leaves the row as it is
completeReminder_lost(rs, id) == rs

completeReminder(rs, id) == SetStatus(rs, id, "completed")

StoreCancelReminder_noWhere(rs, id) ==
    [i \in DOMAIN rs |-> [rs[i] EXCEPT !.status = "cancelled"]]

StoreCancelReminder(rs, id) == SetStatus(rs, id, "cancelled")

\* ---------------------------------------------------------- JavaScript values
Num(v) == [type |-> "number", nan |-> FALSE, v |-> v, id |-> ""]
NaN == [type |-> "number", nan |-> TRUE, v |-> 0, id |-> ""]
Str(x) == [type |-> "string", nan |-> FALSE, v |-> 0, id |-> x]
Fn(x) == [type |-> "function", nan |-> FALSE, v |-> 0, id |-> x]
Undefined == [type |-> "undefined", nan |-> FALSE, v |-> 0, id |-> ""]

\* x <= 0 on a number: false for NaN
LeqZero(x) == ~x.nan /\ x.v <= 0

\* the period setInterval runs with: a delay that is NaN or below 1 is 1
TimerPeriod(x) == IF x.nan \/ x.v < 1 THEN 1 ELSE x.v

\* null in a field that otherwise holds a time or a duration
NoValue == 0 - 1

\* the inputs of the TriggerService calls
Names == {"a", "b"}
RegisterNames == {"a"}
IntervalInputs == {Num(1000), Num(0), NaN, Str("1000")}
UpdateInputs == {Num(2000), Num(0), NaN}
HandlerInputs == {Fn("h1"), Undefined}
Descriptions == {"save"}

\* ------------------------------------------------------- SchedulerManager
Messages == {"Test"}
Channels == {"notification"}
TimeSpecs ==
    { <<W("in"), N(0, 1), W("seconds")>>,
      <<W("in"), N(1, 1), W("seconds")>>,
      <<W("every"), N(5, 1), W("minutes")>>,
      <<W("every"), W("day"), W("at"), N(25, 2)>>,
      <<W("sometime"), W("next"), W("blorp")>>,
      <<W("tomorrow")>> }

\* alertCount is 0, 1 or 2, and 2 stands for "more than once"
Bump(cnt, id) == [cnt EXCEPT ![id] = IF @ = 0 THEN 1 ELSE 2]

\* triggerReminder up to its await: the alert handler, if any, is invoked
triggerReminder(cnt, id, handler) ==
    IF handler = "set" THEN Bump(cnt, id) ELSE cnt

\* checkDueReminders up to its first await: the due list is fetched and the
\* first reminder dispatched; with nothing due the call is over. A suspended
\* check holds the list from the awaited reminder on, whether the alert
\* handler was called for that reminder, and whether an "Alert handler
\* error" was logged for an earlier reminder of the list.
checkDueReminders(chk, cnt, rs, handler, clock) ==
    LET dueReminders == getDueReminders(rs, clock)
    IN  IF dueReminders = << >>
        THEN [checks |-> chk, alertCount |-> cnt]
        ELSE [checks |-> Append(chk, [list |-> dueReminders,
                                      called |-> handler = "set",
                                      errors |-> FALSE]),
              alertCount |-> triggerReminder(cnt, dueReminders[1], handler)]

CheckFits == Len(checks) < MaxChecks \/ getDueReminders(reminders, now) = << >>

\* scheduleRecurring: the registry and the live cron tasks after the call
scheduleRecurring(reg, rs, id) ==
    IF rs[id].cron_expression = NULL \/ ~isValidCron(CronString(rs[id].cron_expression))
    THEN reg
    ELSE IF id \in reg.cronJobs THEN reg
    ELSE IF ~cronScheduleOk(rs[id].cron_expression) THEN reg
    ELSE [cronJobs |-> reg.cronJobs \cup {id},
          cronLive |-> reg.cronLive (+) SetToBag({id})]

RECURSIVE ScheduleAll(_, _, _)
ScheduleAll(reg, rs, ids) ==
    IF ids = << >> THEN reg
    ELSE ScheduleAll(scheduleRecurring(reg, rs, Head(ids)), rs, Tail(ids))

setupRecurringReminders(reg, rs) == ScheduleAll(reg, rs, getRecurringReminders(rs))

NewTimer(live) == CHOOSE h \in 1..(Cardinality(live) + 1) : h \notin live

\* a start() without the "already running" return
Start_rearming ==
    /\ CheckFits
    /\ result' = Ok(IF running THEN "start, already running" ELSE "start")
    /\ LET h == NewTimer(pollTimers)
           c == checkDueReminders(checks, alertCount, reminders, alertHandler, now)
           reg == setupRecurringReminders(
                      [cronJobs |-> cronJobs, cronLive |-> cronLive], reminders)
       IN  /\ running' = TRUE
           /\ mainInterval' = h
           /\ pollTimers' = pollTimers \cup {h}
           /\ checks' = c.checks
           /\ alertCount' = c.alertCount
           /\ cronJobs' = reg.cronJobs
           /\ cronLive' = reg.cronLive
           /\ UNCHANGED <<reminders, alertHandler>>
    /\ UNCHANGED <<now, trigVars, svcVars>>

Start ==
    /\ CheckFits
    /\ result' = Ok(IF running THEN "start, already running" ELSE "start")
    /\ IF running
       THEN UNCHANGED <<schedVars>>
       ELSE LET h == NewTimer(pollTimers)
                c == checkDueReminders(checks, alertCount, reminders, alertHandler, now)
                reg == setupRecurringReminders(
                           [cronJobs |-> cronJobs, cronLive |-> cronLive], reminders)
            IN  /\ running' = TRUE
                /\ mainInterval' = h
                /\ pollTimers' = pollTimers \cup {h}
                /\ checks' = c.checks
                /\ alertCount' = c.alertCount
                /\ cronJobs' = reg.cronJobs
                /\ cronLive' = reg.cronLive
                /\ UNCHANGED <<reminders, alertHandler>>
    /\ UNCHANGED <<now, trigVars, svcVars>>

\* a stop() that clears the registry without stopping the cron tasks
Stop_leavingCronTasks ==
    /\ result' = Ok("stop")
    /\ IF ~running
       THEN UNCHANGED <<schedVars>>
       ELSE /\ running' = FALSE
            /\ mainInterval' = 0
            /\ pollTimers' = pollTimers \ {mainInterval}
            /\ cronJobs' = {}
            /\ UNCHANGED <<reminders, alertHandler, checks, alertCount, cronLive>>
    /\ UNCHANGED <<now, trigVars, svcVars>>

Stop ==
    /\ result' = Ok("stop")
    /\ IF ~running
       THEN UNCHANGED <<schedVars>>
       ELSE /\ running' = FALSE
            /\ mainInterval' = 0
            /\ pollTimers' = pollTimers \ {mainInterval}
            /\ cronLive' = [id \in BagToSet(cronLive) \ cronJobs |-> cronLive[id]]
            /\ cronJobs' = {}
            /\ UNCHANGED <<reminders, alertHandler, checks, alertCount>>
    /\ UNCHANGED <<now, trigVars, svcVars>>

\* a poll timer fires
PollTick ==
    /\ pollTimers # {}
    /\ CheckFits
    /\ LET c == checkDueReminders(checks, alertCount, reminders, alertHandler, now)
       IN  /\ checks' = c.checks
           /\ alertCount' = c.alertCount
    /\ UNCHANGED <<now, result, reminders, running, mainInterval, pollTimers,
                   cronJobs, cronLive, alertHandler, trigVars, svcVars>>

RemoveAt(q, i) == [j \in 1..(Len(q) - 1) |-> IF j < i THEN q[j] ELSE q[j + 1]]

\* a triggerReminder that lets the rejection of the alert handler through
triggerSettled_rethrowing(outcome) == outcome

\* how the promise of triggerReminder settles when the alert handler settles
\* with outcome: the rejection is caught and logged
triggerSettled(outcome) == "resolved"

\* the alert handler awaited by check i settles (only a handler that was
\* called can reject). When triggerReminder resolves, the reminder is
\* completed and the next one of the list dispatched; when it rejects, the
\* catch of checkDueReminders ends the check.
CheckResume(i, outcome) ==
    /\ i \in DOMAIN checks
    /\ outcome = "rejected" => checks[i].called
    /\ LET list == checks[i].list
           rest == Tail(list)
       IN  IF triggerSettled(outcome) = "resolved"
           THEN /\ reminders' = completeReminder(reminders, Head(list))
                /\ IF rest = << >>
                   THEN /\ checks' = RemoveAt(checks, i)
                        /\ UNCHANGED alertCount
                   ELSE /\ checks' = [checks EXCEPT ![i] =
                                         [list |-> rest,
                                          called |-> alertHandler = "set",
                                          errors |-> @.errors \/ outcome = "rejected"]]
                        /\ alertCount' = triggerReminder(alertCount, Head(rest),
                                                         alertHandler)
           ELSE /\ checks' = RemoveAt(checks, i)
                /\ UNCHANGED <<reminders, alertCount>>
    /\ UNCHANGED <<now, result, running, mainInterval, pollTimers, cronJobs,
                   cronLive, alertHandler, trigVars, svcVars>>

\* the node-cron task of reminder id fires
CronTick(id) ==
    /\ id \in BagToSet(cronLive)
    /\ alertCount' = triggerReminder(alertCount, id, alertHandler)
    /\ UNCHANGED <<now, result, reminders, running, mainInterval, pollTimers,
                   cronJobs, cronLive, alertHandler, checks, trigVars, svcVars>>

\* addReminder after a successful parse: the row is stored and, for a
\* recurring reminder on a running scheduler, its cron task armed
AddParsed(message, parsed, channel) ==
    /\ Len(reminders) < MaxReminders
    /\ result' = Ok("addReminder")
    /\ alertCount' = Append(alertCount, 0)
    /\ IF parsed.type = "recurring"
       THEN LET rs == StoreAddReminder(reminders, message, NULL, parsed.cron, channel)
                reg == IF running
                       THEN scheduleRecurring(
                                [cronJobs |-> cronJobs, cronLive |-> cronLive],
                                rs, Len(rs))
                       ELSE [cronJobs |-> cronJobs, cronLive |-> cronLive]
            IN  /\ reminders' = rs
                /\ cronJobs' = reg.cronJobs
                /\ cronLive' = reg.cronLive
       ELSE /\ reminders' = StoreAddReminder(reminders, message,
                                             toISOString(parsed.date), NULL, channel)
            /\ UNCHANGED <<cronJobs, cronLive>>
    /\ UNCHANGED <<running, mainInterval, pollTimers, alertHandler, checks>>

\* addReminder that falls back to "now" when the time cannot be parsed
AddReminder_defaulting(message, timeSpec, channel) ==
    LET parsed == parseReminderTime(timeSpec, now)
    IN  /\ IF parsed = NULL
           THEN AddParsed(message, [type |-> "once", date |-> now, text |-> timeSpec],
                          channel)
           ELSE AddParsed(message, parsed, channel)
        /\ UNCHANGED <<now, trigVars, svcVars>>

AddReminder(message, timeSpec, channel) ==
    LET parsed == parseReminderTime(timeSpec, now)
    IN  /\ IF parsed = NULL
           THEN /\ result' = Threw("addReminder", "Could not parse time", timeSpec)
                /\ UNCHANGED <<schedVars>>
           ELSE AddParsed(message, parsed, channel)
        /\ UNCHANGED <<now, trigVars, svcVars>>

CancelReminder(id) ==
    /\ result' = Ok(IF id \in DOMAIN reminders /\ reminders[id].status # "cancelled"
                    THEN "cancelReminder" ELSE "cancelReminder, no live row")
    /\ IF id \in cronJobs
       THEN /\ cronJobs' = cronJobs \ {id}
            /\ cronLive' = cronLive (-) SetToBag({id})
       ELSE UNCHANGED <<cronJobs, cronLive>>
    /\ reminders' = StoreCancelReminder(reminders, id)
    /\ UNCHANGED <<now, running, mainInterval, pollTimers, alertHandler, checks,
                   alertCount, trigVars, svcVars>>

SetAlertHandler(handler) ==
    /\ alertHandler' = handler
    /\ UNCHANGED <<now, result, reminders, running, mainInterval, pollTimers, cronJobs,
                   cronLive, checks, alertCount, trigVars, svcVars>>

AdvanceClock ==
    /\ now < (MaxClock + 1) * ClockStep
    /\ now' = now + ClockStep
    /\ UNCHANGED <<result, schedVars, trigVars, svcVars>>

\* A job object that nothing refers to any more is garbage: the model keeps
\* one value for it.
Collected ==
    [name |-> "", interval |-> Num(0), handler |-> Undefined, description |-> "",
     enabled |-> FALSE, timer |-> 0, runCount |-> 0, lastRun |-> NoValue,
     lastDuration |-> NoValue, lastError |-> NoValue, createdAt |-> 0]

\* hashKey(key): the SHA-256 digest of key
hashKey(key) == [sha256 |-> key.id]

\* new ClaudeService(): the fields the constructor sets (service.js 28-75),
\* with the key file that getAPIKeyManager() loads.
\* A client id that no connection has taken yet has no socket and no entry.
NoClient ==
    [socket |-> "none", inMap |-> FALSE, isLocal |-> FALSE, authenticated |-> FALSE,
     got |-> {}]

ServiceNew ==
    /\ remoteMode = FALSE
    /\ listening = FALSE
    /\ ptyProcess = 0
    /\ alive = {}
    /\ spawnCount = 0
    /\ restartAttempts = 0
    /\ lastRestartTime = 0
    /\ isShuttingDown = FALSE
    /\ restartTimers = << >>
    /\ claudeReady = FALSE
    /\ lastOutputTime = 0
    /\ readyCheckInterval = FALSE
    /\ commandQueue = << >>
    /\ enterTimers = 0
    /\ written = << >>
    /\ clients = [c \in 1..MaxClients |-> NoClient]
    /\ clientIdCounter = 0
    /\ endTimers = {}
    /\ sentCount = 0
    /\ apiKeys = [name \in {"laptop"} |->
                     [hash |-> hashKey(Str("secret")), lastUsed |-> NULL]]

Init ==
    /\ now = ClockStep
    /\ result = Ok("constructor")
    /\ reminders = << >>
    /\ running = FALSE
    /\ mainInterval = 0
    /\ pollTimers = {}
    /\ cronJobs = {}
    /\ cronLive = EmptyBag
    /\ alertHandler = "none"
    /\ checks = << >>
    /\ alertCount = << >>
    /\ objs = [o \in 1..MaxObjs |-> Collected]
    /\ jobs = [n \in Names |-> 0]
    /\ started = FALSE
    /\ timers = EmptyBag
    /\ immediates = << >>
    /\ execs = << >>
    /\ okCount = [o \in 1..MaxObjs |-> 0]
    /\ ServiceNew

SchedNext ==
    \/ Start
    \/ Stop
    \/ PollTick
    \/ \E i \in 1..MaxChecks : \E outcome \in {"resolved", "rejected"} :
           CheckResume(i, outcome)
    \/ \E id \in 1..MaxReminders : CronTick(id)
    \/ \E m \in Messages : \E t \in TimeSpecs : \E c \in Channels :
           AddReminder(m, t, c)
    \/ \E id \in 1..(MaxReminders + 1) : CancelReminder(id)
    \/ \E h \in {"none", "set"} : SetAlertHandler(h)
    \/ AdvanceClock

SchedSpec == Init /\ [][SchedNext]_vars

\* The poll timer of a running scheduler keeps firing, and the alert callback
\* awaited by a due-check settles.
SchedLiveSpec ==
    /\ Init
    /\ [][SchedNext]_vars
    /\ WF_vars(PollTick)
    /\ \A i \in 1..MaxChecks :
           WF_vars(\E outcome \in {"resolved", "rejected"} : CheckResume(i, outcome))

\* --------------------------------------------------------- TriggerService
heap == [objs |-> objs, timers |-> timers, immediates |-> immediates]

\* A Timeout object is the job object whose callback it runs and its period;
\* job.timer is 0 (null) or the period of the Timeout it holds.
Timeout(o, period) == [obj |-> o, period |-> period]

\* a clearInterval that leaves the Timeout running
clearInterval_leaving(live, st, o) == live

\* clearInterval(job.timer), for a job object o that holds a timer
clearInterval(live, st, o) == live (-) SetToBag({Timeout(o, st.objs[o].timer)})

\* a _startJob that arms the timer and never queues the immediate run
StartJobTimer_ignoringImmediate(st, o, immediate) ==
    LET live == IF st.objs[o].timer # 0
                THEN clearInterval(st.timers, st, o)
                ELSE st.timers
        period == TimerPeriod(st.objs[o].interval)
    IN  [objs |-> [st.objs EXCEPT ![o].timer = period],
         timers |-> live (+) SetToBag({Timeout(o, period)}),
         immediates |-> st.immediates]

\* _startJob(job, immediate) on job object o
StartJobTimer(st, o, immediate) ==
    LET live == IF st.objs[o].timer # 0
                THEN clearInterval(st.timers, st, o)
                ELSE st.timers
        period == TimerPeriod(st.objs[o].interval)
    IN  [objs |-> [st.objs EXCEPT ![o].timer = period],
         timers |-> live (+) SetToBag({Timeout(o, period)}),
         immediates |-> IF immediate THEN Append(st.immediates, o)
                        ELSE st.immediates]

\* the model holds at most MaxImmediates pending setImmediate callbacks
ImmediateFits(queues) == queues => Len(immediates) < MaxImmediates

\* A job object is referenced while it is in the Map, or a Timeout, a pending
\* setImmediate callback or a suspended _executeJob holds it.
Referenced(o, map, live, callbacks, inflight) ==
    \/ \E n \in Names : map[n] = o
    \/ \E t \in BagToSet(live) : t.obj = o
    \/ \E i \in DOMAIN callbacks : callbacks[i] = o
    \/ \E i \in DOMAIN inflight : inflight[i].obj = o

Collect(os, map, live, callbacks, inflight) ==
    [o \in DOMAIN os |->
        IF Referenced(o, map, live, callbacks, inflight) THEN os[o] ELSE Collected]

CollectCount(cnt, map, live, callbacks, inflight) ==
    [o \in DOMAIN cnt |->
        IF Referenced(o, map, live, callbacks, inflight) THEN cnt[o] ELSE 0]

\* the slots of the model's heap that hold no referenced job object
FreeSlots == {o \in DOMAIN objs : ~Referenced(o, jobs, timers, immediates, execs)}

\* _executeJob up to its await: the start time is taken and the handler called
CanExecute(o) == Len(execs) < MaxExecs /\ objs[o].runCount < MaxRuns

ExecuteJob(o) == Append(execs, [obj |-> o, startTime |-> now])

\* a completion that stores a count of one instead of incrementing
JobCompleted_once(job, startTime, clock) ==
    [job EXCEPT !.runCount = 1,
                !.lastRun = startTime,
                !.lastDuration = clock - startTime,
                !.lastError = NoValue]

\* _executeJob after its await, for a handler that returned or resolved
JobCompleted(job, startTime, clock) ==
    [job EXCEPT !.runCount = @ + 1,
                !.lastRun = startTime,
                !.lastDuration = clock - startTime,
                !.lastError = NoValue]

\* a failure that is counted as a run
JobFailed_counting(job, startTime, clock) ==
    [job EXCEPT !.runCount = @ + 1,
                !.lastRun = startTime,
                !.lastDuration = clock - startTime,
                !.lastError = startTime]

\* _executeJob after its await, for a handler that threw or rejected;
\* lastError holds the start time of the failed run, NoValue for null
JobFailed(job, startTime, clock) ==
    [job EXCEPT !.lastRun = startTime,
                !.lastDuration = clock - startTime,
                !.lastError = startTime]

Register(name, interval, handler, immediate, enabled, description) ==
    /\ IF jobs[name] # 0
       THEN /\ result' = Threw("register", "already registered", <<W(name)>>)
            /\ UNCHANGED trigVars
       ELSE IF interval.type # "number" \/ LeqZero(interval)
       THEN /\ result' = Threw("register", "Invalid interval", <<W(name)>>)
            /\ UNCHANGED trigVars
       ELSE IF handler.type # "function"
       THEN /\ result' = Threw("register", "Invalid handler", <<W(name)>>)
            /\ UNCHANGED trigVars
       ELSE /\ FreeSlots # {}
            /\ ImmediateFits(enabled /\ started /\ immediate)
            /\ LET job == [name |-> name, interval |-> interval, handler |-> handler,
                           description |-> description, enabled |-> enabled,
                           timer |-> 0, runCount |-> 0, lastRun |-> NoValue,
                           lastDuration |-> NoValue, lastError |-> NoValue,
                           createdAt |-> now]
                   o == CHOOSE f \in FreeSlots : \A g \in FreeSlots : f <= g
                   st0 == [heap EXCEPT !.objs[o] = job]
                   st == IF enabled /\ started
                         THEN StartJobTimer(st0, o, immediate) ELSE st0
               IN  /\ objs' = st.objs
                   /\ timers' = st.timers
                   /\ immediates' = st.immediates
                   /\ jobs' = [jobs EXCEPT ![name] = o]
                   /\ okCount' = [okCount EXCEPT ![o] = 0]
            /\ result' = Ok("register")
            /\ UNCHANGED <<started, execs>>
    /\ UNCHANGED <<now, schedVars, svcVars>>

\* the job objects of the Map in insertion order
JobOrder == SortIds({jobs[n] : n \in Names} \ {0}, [o \in DOMAIN objs |-> o])

RECURSIVE StartAll(_, _)
StartAll(st, os) ==
    IF os = << >> THEN st
    ELSE LET o == Head(os)
         IN  StartAll(IF st.objs[o].enabled /\ st.objs[o].timer = 0
                      THEN StartJobTimer(st, o, FALSE) ELSE st,
                      Tail(os))

TrigStart ==
    /\ result' = Ok("start")
    /\ IF started
       THEN UNCHANGED trigVars
       ELSE LET st == StartAll(heap, JobOrder)
            IN  /\ started' = TRUE
                /\ objs' = st.objs
                /\ timers' = st.timers
                /\ immediates' = st.immediates
                /\ UNCHANGED <<jobs, execs, okCount>>
    /\ UNCHANGED <<now, schedVars, svcVars>>

\* a call on a missing job that returns without an error
NotFound_silent(op, name) ==
    /\ result' = Ok(op)
    /\ UNCHANGED trigVars

NotFound(op, name) ==
    /\ result' = Threw(op, "not found", <<W(name)>>)
    /\ UNCHANGED trigVars

\* a stop that also clears the run history of the job
StopJob_resetting(st, o) ==
    [st EXCEPT !.timers = IF st.objs[o].timer # 0
                          THEN clearInterval(st.timers, st, o)
                          ELSE st.timers,
               !.objs = [st.objs EXCEPT ![o].timer = 0, ![o].enabled = FALSE,
                                        ![o].runCount = 0, ![o].lastRun = NoValue]]

\* a stop that clears the timer and leaves the job enabled
StopJob_keepingEnabled(st, o) ==
    [st EXCEPT !.timers = IF st.objs[o].timer # 0
                          THEN clearInterval(st.timers, st, o)
                          ELSE st.timers,
               !.objs = [st.objs EXCEPT ![o].timer = 0]]

\* stop(name) on job object o: the timer cleared and the job disabled
StopJob(st, o) ==
    [st EXCEPT !.timers = IF st.objs[o].timer # 0
                          THEN clearInterval(st.timers, st, o)
                          ELSE st.timers,
               !.objs = [st.objs EXCEPT ![o].timer = 0, ![o].enabled = FALSE]]

TrigStop(name) ==
    /\ IF jobs[name] = 0
       THEN NotFound("stop", name)
       ELSE LET st == StopJob(heap, jobs[name])
            IN  /\ objs' = st.objs
                /\ timers' = st.timers
                /\ result' = Ok("stop")
                /\ UNCHANGED <<jobs, started, immediates, execs, okCount>>
    /\ UNCHANGED <<now, schedVars, svcVars>>

StartJob(name, immediate) ==
    /\ IF jobs[name] = 0
       THEN NotFound("startJob", name)
       ELSE LET o == jobs[name]
            IN  IF objs[o].enabled /\ objs[o].timer # 0
                THEN /\ result' = Ok("startJob, already running")
                     /\ UNCHANGED trigVars
                ELSE LET st0 == [heap EXCEPT !.objs[o].enabled = TRUE]
                         st == IF started THEN StartJobTimer(st0, o, immediate)
                               ELSE st0
                     IN  /\ ImmediateFits(started /\ immediate)
                         /\ objs' = st.objs
                         /\ timers' = st.timers
                         /\ immediates' = st.immediates
                         /\ result' = Ok("startJob")
                         /\ UNCHANGED <<jobs, started, execs, okCount>>
    /\ UNCHANGED <<now, schedVars, svcVars>>

Unregister(name) ==
    /\ IF jobs[name] = 0
       THEN /\ result' = Ok("unregister, false")
            /\ UNCHANGED trigVars
       ELSE LET o == jobs[name]
            IN  /\ timers' = IF objs[o].timer # 0
                             THEN clearInterval(timers, heap, o) ELSE timers
                /\ jobs' = [jobs EXCEPT ![name] = 0]
                /\ objs' = Collect(objs, jobs', timers', immediates, execs)
                /\ okCount' = CollectCount(okCount, jobs', timers', immediates, execs)
                /\ result' = Ok("unregister")
                /\ UNCHANGED <<started, immediates, execs>>
    /\ UNCHANGED <<now, schedVars, svcVars>>

UpdateInterval(name, newInterval) ==
    /\ IF jobs[name] = 0
       THEN NotFound("updateInterval", name)
       ELSE IF newInterval.type # "number" \/ LeqZero(newInterval)
       THEN /\ result' = Threw("updateInterval", "Invalid interval", << >>)
            /\ UNCHANGED trigVars
       ELSE LET o == jobs[name]
                st0 == [heap EXCEPT !.objs[o].interval = newInterval]
                st == IF objs[o].enabled /\ objs[o].timer # 0 /\ started
                      THEN StartJobTimer(st0, o, FALSE) ELSE st0
            IN  /\ objs' = st.objs
                /\ timers' = st.timers
                /\ immediates' = st.immediates
                /\ result' = Ok("updateInterval")
                /\ UNCHANGED <<jobs, started, execs, okCount>>
    /\ UNCHANGED <<now, schedVars, svcVars>>

\* a trigger(name) that returns without running the handler while an
\* execution of the job is in flight
Trigger_ifIdle(name) ==
    /\ IF jobs[name] = 0
       THEN NotFound("trigger", name)
       ELSE /\ CanExecute(jobs[name])
            /\ execs' = IF \E i \in DOMAIN execs : execs[i].obj = jobs[name]
                        THEN execs ELSE ExecuteJob(jobs[name])
            /\ result' = Ok("trigger")
            /\ UNCHANGED <<objs, jobs, started, timers, immediates, okCount>>
    /\ UNCHANGED <<now, schedVars, svcVars>>

\* trigger(name) up to the await inside _executeJob; trigger is async, so its
\* error for a missing job is the rejection of the promise it returns
Trigger(name) ==
    /\ IF jobs[name] = 0
       THEN NotFound("trigger", name)
       ELSE /\ CanExecute(jobs[name])
            /\ execs' = ExecuteJob(jobs[name])
            /\ result' = Ok("trigger")
            /\ UNCHANGED <<objs, jobs, started, timers, immediates, okCount>>
    /\ UNCHANGED <<now, schedVars, svcVars>>

\* an interval timer fires
TimerFire(t) ==
    /\ t \in BagToSet(timers)
    /\ CanExecute(t.obj)
    /\ execs' = ExecuteJob(t.obj)
    /\ UNCHANGED <<now, result, schedVars, svcVars, objs, jobs, started, timers,
                   immediates, okCount>>

\* the oldest setImmediate callback runs
ImmediateRun ==
    /\ immediates # << >>
    /\ CanExecute(Head(immediates))
    /\ execs' = ExecuteJob(Head(immediates))
    /\ immediates' = Tail(immediates)
    /\ UNCHANGED <<now, result, schedVars, svcVars, objs, jobs, started, timers, okCount>>

\* a settle that records the run in every job object
HandlerSettle_onEveryJob(i, outcome) ==
    /\ i \in DOMAIN execs
    /\ execs' = RemoveAt(execs, i)
    /\ LET e == execs[i]
           os == [o \in DOMAIN objs |->
                     IF outcome = "ok" THEN JobCompleted(objs[o], e.startTime, now)
                     ELSE JobFailed(objs[o], e.startTime, now)]
           cnt == [okCount EXCEPT ![e.obj] = IF outcome = "ok" THEN @ + 1 ELSE @]
       IN  /\ objs' = Collect(os, jobs, timers, immediates, execs')
           /\ okCount' = CollectCount(cnt, jobs, timers, immediates, execs')
    /\ UNCHANGED <<now, result, schedVars, svcVars, jobs, started, timers, immediates>>

\* the handler of execution i returns or resolves ("ok"), or throws or
\* rejects ("fail"), and _executeJob records the run
HandlerSettle(i, outcome) ==
    /\ i \in DOMAIN execs
    /\ execs' = RemoveAt(execs, i)
    /\ LET e == execs[i]
           os == [objs EXCEPT ![e.obj] =
                     IF outcome = "ok" THEN JobCompleted(@, e.startTime, now)
                     ELSE JobFailed(@, e.startTime, now)]
           cnt == [okCount EXCEPT ![e.obj] = IF outcome = "ok" THEN @ + 1 ELSE @]
       IN  /\ objs' = Collect(os, jobs, timers, immediates, execs')
           /\ okCount' = CollectCount(cnt, jobs, timers, immediates, execs')
    /\ UNCHANGED <<now, result, schedVars, svcVars, jobs, started, timers, immediates>>

\* a loop over the jobs that ends after the first one
StopEach_firstOnly(st, os) ==
    IF os = << >> THEN st ELSE StopJob(st, Head(os))

RECURSIVE StopEach(_, _)
StopEach(st, os) ==
    IF os = << >> THEN st ELSE StopEach(StopJob(st, Head(os)), Tail(os))

StopAll ==
    /\ LET st == StopEach(heap, JobOrder)
       IN  /\ objs' = st.objs
           /\ timers' = st.timers
    /\ started' = FALSE
    /\ result' = Ok("stopAll")
    /\ UNCHANGED <<now, schedVars, svcVars, jobs, immediates, execs, okCount>>

Shutdown ==
    /\ jobs' = [n \in Names |-> 0]
    /\ LET st == StopEach(heap, JobOrder)
       IN  /\ timers' = st.timers
           /\ objs' = Collect(st.objs, jobs', timers', immediates, execs)
    /\ okCount' = CollectCount(okCount, jobs', timers', immediates, execs)
    /\ started' = FALSE
    /\ result' = Ok("shutdown")
    /\ UNCHANGED <<now, schedVars, svcVars, immediates, execs>>

TrigNext ==
    \/ \E n \in RegisterNames : \E iv \in IntervalInputs : \E h \in HandlerInputs :
       \E im \in BOOLEAN : \E en \in BOOLEAN : \E d \in Descriptions :
           Register(n, iv, h, im, en, d)
    \/ TrigStart
    \/ \E n \in Names : TrigStop(n)
    \/ \E n \in Names : \E im \in BOOLEAN : StartJob(n, im)
    \/ \E n \in Names : Unregister(n)
    \/ \E n \in Names : \E iv \in UpdateInputs : UpdateInterval(n, iv)
    \/ \E n \in Names : Trigger(n)
    \/ \E t \in BagToSet(timers) : TimerFire(t)
    \/ ImmediateRun
    \/ \E i \in 1..MaxExecs : \E outcome \in {"ok", "fail"} : HandlerSettle(i, outcome)
    \/ StopAll
    \/ Shutdown
    \/ AdvanceClock

TrigSpec == Init /\ [][TrigNext]_vars

\* toISOString of an invalid Date throws
RangeError == [k |-> "RangeError"]

\* _getNextRun(job) at the instant clock
getNextRun(job, clock) ==
    IF ~job.enabled \/ job.timer = 0 THEN NULL
    ELSE LET baseTime == IF job.lastRun # NoValue /\ job.lastRun # 0
                         THEN job.lastRun ELSE job.createdAt
         IN  IF job.interval.nan THEN RangeError
             ELSE IF baseTime + job.interval.v < clock
             THEN toISOString(clock + job.interval.v)
             ELSE toISOString(baseTime + job.interval.v)

\* getStatus(name); the status holds every field but intervalHuman, a
\* rendering of interval
GetStatus(name) ==
    /\ IF jobs[name] = 0
       THEN result' = [op |-> "getStatus", err |-> "", text |-> <<W(name)>>,
                       status |-> NULL]
       ELSE LET job == objs[jobs[name]]
                nextRun == getNextRun(job, now)
            IN  IF nextRun = RangeError
                THEN result' = Threw("getStatus", "RangeError", <<W(name)>>)
                ELSE result' =
                        [op |-> "getStatus", err |-> "", text |-> <<W(name)>>,
                         status |->
                            [name |-> job.name, description |-> job.description,
                             enabled |-> job.enabled, running |-> job.timer # 0,
                             interval |-> job.interval, runCount |-> job.runCount,
                             lastRun |-> IF job.lastRun # NoValue /\ job.lastRun # 0
                                         THEN toISOString(job.lastRun) ELSE NULL,
                             lastDuration |-> job.lastDuration,
                             lastError |-> job.lastError,
                             nextRun |-> nextRun,
                             createdAt |-> toISOString(job.createdAt)]]
    /\ UNCHANGED <<now, schedVars, trigVars, svcVars>>

StatusNext ==
    \/ TrigNext
    \/ \E n \in Names : GetStatus(n)

StatusSpec == Init /\ [][StatusNext]_vars

\* The service with every name of Names registered at once: a heap with one
\* slot per name, and the calls that act on all jobs together with those
\* that bring single jobs into different states.
PairInit ==
    /\ now = ClockStep
    /\ result = Ok("constructor")
    /\ reminders = << >>
    /\ running = FALSE
    /\ mainInterval = 0
    /\ pollTimers = {}
    /\ cronJobs = {}
    /\ cronLive = EmptyBag
    /\ alertHandler = "none"
    /\ checks = << >>
    /\ alertCount = << >>
    /\ objs = [o \in 1..Cardinality(Names) |-> Collected]
    /\ jobs = [n \in Names |-> 0]
    /\ started = FALSE
    /\ timers = EmptyBag
    /\ immediates = << >>
    /\ execs = << >>
    /\ okCount = [o \in 1..Cardinality(Names) |-> 0]
    /\ ServiceNew

PairNext ==
    \/ \E n \in Names : \E en \in BOOLEAN :
           Register(n, Num(1000), Fn("h1"), FALSE, en, "save")
    \/ TrigStart
    \/ \E n \in Names : TrigStop(n)
    \/ \E n \in Names : StartJob(n, FALSE)
    \/ \E n \in Names : Unregister(n)
    \/ \E n \in Names : Trigger(n)
    \/ \E t \in BagToSet(timers) : TimerFire(t)
    \/ \E i \in 1..MaxExecs : \E outcome \in {"ok", "fail"} : HandlerSettle(i, outcome)
    \/ StopAll
    \/ Shutdown

PairSpec == PairInit /\ [][PairNext]_vars

\* ------------------------------------------------- the parser called alone
\* The parser's functions are pure but for the clock they read. Each call
\* leaves in result the function called, its arguments and what it returned.
InText(n, d, unit) == <<W("in"), N(n, d), W(unit)>>
EveryNText(n, d, unit) == <<W("every"), N(n, d), W(unit)>>

\* "H", "H:MM", "Ham", "H:MMpm" ...; minute -1 stands for no minute given
ClockText(h, minute, ampm) ==
    <<N(h, Digits(h))>>
    \o (IF minute < 0 THEN << >> ELSE <<W(":"), N(minute, 2)>>)
    \o (IF ampm = "" THEN << >> ELSE <<W(ampm)>>)

EveryAtText(dayWord, h, minute, ampm) ==
    <<W("every"), W(dayWord), W("at")>> \o ClockText(h, minute, ampm)

\* "in N <unit>" with the values of N kept where now + N units is below 2^31
RelativeTexts ==
    UNION {{InText(n, Digits(n), u) :
               n \in IF u \in WeekWords THEN {0, 1, 2}
                     ELSE IF u \in DayWords THEN {0, 1, 2, 20}
                     ELSE {0, 1, 2, 30}} :
           u \in {"second", "seconds", "minute", "minutes", "hour", "hours",
                  "day", "days", "week", "weeks"}}
    \cup {InText(5, 2, "minutes"), <<W("In"), N(2, 1), W("hours")>>,
          <<W("remind"), W("me")>> \o InText(3, 1, "days")}

EveryNTexts ==
    {EveryNText(n, Digits(n), u) : n \in {0, 1, 5, 15},
                                   u \in {"minute", "minutes", "hour", "hours"}}
    \cup {EveryNText(5, 2, "minutes"), <<W("Every"), N(10, 2), W("minutes")>>}

\* the parts the "every <day> at <time>" texts are built from
AtParts ==
    [dayWords |-> {"day", "weekday", "sunday", "mon", "saturday"},
     hours |-> {0, 9, 12, 25},
     minutes |-> {-1, 0, 5, 30},
     ampms |-> {"", "am", "pm"}]
EveryAtTexts ==
    {EveryAtText(w, h, m, a) : w \in AtParts.dayWords, h \in AtParts.hours,
                               m \in AtParts.minutes, a \in AtParts.ampms}

\* texts that hold a recurring phrase and a relative one, in either order
RecurringSamples ==
    {EveryNText(5, 1, "minutes"), <<W("every"), W("hour")>>,
     EveryAtText("day", 9, -1, "am"), EveryAtText("weekday", 9, 30, ""),
     EveryAtText("mon", 12, -1, "pm")}
RelativeSamples == {InText(2, 1, "hours"), InText(1, 1, "week"), InText(0, 1, "seconds")}
MixedTexts ==
    {r \o i : r \in RecurringSamples, i \in RelativeSamples}
    \cup {i \o r : r \in RecurringSamples, i \in RelativeSamples}

PhraseTexts ==
    {<<W("tomorrow")>>, <<W("now")>>, <<W("yesterday")>>,
     <<W("sometime"), W("next"), W("blorp")>>}

\* fields of a cron expression, well formed and not
CronFields ==
    {CStar, CNum(5), CNum(99), CStep(5), <<N(5, 1), W("/"), N(2, 1)>>,
     CRange(1, 5), CNum(1) \o <<W(",")>> \o CRange(3, 5),
     CRange(1, 2) \o <<W(",")>> \o CNum(4) \o <<W(",")>> \o CNum(6),
     <<W("*"), W("/"), W("*")>>, <<N(1, 1), W("-")>>, <<W("x")>>,
     CRange(1, 5) \o <<W("/"), N(2, 1)>>, <<W("*"), W(","), N(1, 1)>>,
     CRange(1, 2) \o <<W("-"), N(3, 1)>>,
     <<N(1, 1), W(","), W(","), N(2, 1)>>, <<W("/"), N(2, 1)>>,
     CStep(5) \o <<W(","), N(6, 1)>>}
Stars(k) == [i \in 1..k |-> CStar]
CronExpressions ==
    {CronString([Stars(5) EXCEPT ![i] = f]) : i \in 1..5, f \in CronFields}
    \cup {CronString(Stars(k)) : k \in 0..7}
    \cup {<<W(" ")>> \o CronString(Stars(k)) \o <<W(" "), W(" ")>> : k \in 0..6}
    \cup {CronString(Stars(2)) \o <<W(" "), W(" ")>> \o CronString(<<CNum(99), CStar, CStar>>),
          CronString(<<CStar, CStar, CStar, CStar>>) \o CStar}

\* the reference dates handed to parseTime
ReferenceDates(clock) == {clock, clock + DayMs, IF clock >= DayMs THEN clock - DayMs ELSE 0}

Called(op, text, referenceDate, value) ==
    [op |-> op, text |-> text, referenceDate |-> referenceDate, value |-> value]

CallParseReminderTime(text) ==
    /\ result' = Called("parseReminderTime", text, now, parseReminderTime(text, now))
    /\ UNCHANGED <<now, schedVars, trigVars, svcVars>>

CallParseTime(text, referenceDate) ==
    /\ result' = Called("parseTime", text, referenceDate, parseTime(text, referenceDate, now))
    /\ UNCHANGED <<now, schedVars, trigVars, svcVars>>

CallParseCronPattern(text) ==
    /\ result' = Called("parseCronPattern", text, now, parseCronPattern(text))
    /\ UNCHANGED <<now, schedVars, trigVars, svcVars>>

CallParseRelativeTime(text) ==
    /\ result' = Called("parseRelativeTime", text, now, parseRelativeTime(text, now))
    /\ UNCHANGED <<now, schedVars, trigVars, svcVars>>

CallIsValidCron(expression) ==
    /\ result' = Called("isValidCron", expression, now, isValidCron(expression))
    /\ UNCHANGED <<now, schedVars, trigVars, svcVars>>

ParseInit ==
    /\ now \in {ClockStep, DayMs + ClockStep, 2 * DayMs + ClockStep}
    /\ result = Ok("require")
    /\ reminders = << >>
    /\ running = FALSE
    /\ mainInterval = 0
    /\ pollTimers = {}
    /\ cronJobs = {}
    /\ cronLive = EmptyBag
    /\ alertHandler = "none"
    /\ checks = << >>
    /\ alertCount = << >>
    /\ objs = [o \in 1..MaxObjs |-> Collected]
    /\ jobs = [n \in Names |-> 0]
    /\ started = FALSE
    /\ timers = EmptyBag
    /\ immediates = << >>
    /\ execs = << >>
    /\ okCount = [o \in 1..MaxObjs |-> 0]
    /\ ServiceNew

ParseNext ==
    \/ \E text \in RelativeTexts \cup EveryNTexts \cup RecurringSamples
                     \cup MixedTexts \cup PhraseTexts :
           CallParseReminderTime(text)
    \/ \E text \in PhraseTexts \cup RecurringSamples :
           \E referenceDate \in ReferenceDates(now) : CallParseTime(text, referenceDate)
    \/ \E text \in EveryNTexts \cup EveryAtTexts \cup MixedTexts \cup PhraseTexts
                     \cup {<<W("every"), W("hour")>>, <<W("every"), W("day")>>} :
           CallParseCronPattern(text)
    \/ \E text \in RelativeTexts \cup PhraseTexts : CallParseRelativeTime(text)
    \/ \E expression \in CronExpressions : CallIsValidCron(expression)

ParseSpec == ParseInit /\ [][ParseNext]_vars

\* ---------------------------------------------------------- ClaudeService
\* src/src/service.js.  A Claude process is the number pty.spawn gave it; a
\* message a socket received is recorded by its kind.  The WebSocket server
\* and the output buffer are left out; the output of Claude never holds the
\* permissions dialog, so handleOutput sends no keys of its own.
\* validate(key): the name of the stored key with the hash of key, and the
\* keys with its lastUsed set
validate(keys, key, clock) ==
    IF key.type # "string" \/ key.id = ""
    THEN [valid |-> FALSE, name |-> "", keys |-> keys]
    ELSE LET hits == {name \in DOMAIN keys : keys[name].hash = hashKey(key)}
         IN  IF hits = {}
             THEN [valid |-> FALSE, name |-> "", keys |-> keys]
             ELSE LET name == CHOOSE n \in hits : TRUE
                  IN  [valid |-> TRUE, name |-> name,
                       keys |-> [keys EXCEPT ![name].lastUsed = toISOString(clock)]]

sendTo(cl, clientId, kind) ==
    IF cl[clientId].inMap /\ cl[clientId].socket = "open"
    THEN [cl EXCEPT ![clientId].got = @ \cup {kind}]
    ELSE cl

\* a broadcast that writes to every socket of the map
broadcast_toAll(cl, kind) ==
    [c \in DOMAIN cl |->
        IF cl[c].inMap /\ cl[c].socket = "open"
        THEN [cl[c] EXCEPT !.got = @ \cup {kind}] ELSE cl[c]]

broadcast(cl, kind) ==
    [c \in DOMAIN cl |->
        IF cl[c].inMap /\ cl[c].authenticated /\ cl[c].socket = "open"
        THEN [cl[c] EXCEPT !.got = @ \cup {kind}] ELSE cl[c]]

\* ptyProcess.write(data): the write, the process it went to and whether
\* that process had exited
ptyWrite(w, kind, data) ==
    Append(w, [kind |-> kind, data |-> data, pid |-> ptyProcess,
               exited |-> ptyProcess \notin alive])

executeCommand(st, clientId, data) ==
    IF ptyProcess # 0
    THEN [st EXCEPT !.written = ptyWrite(@, "command", data), !.enterTimers = @ + 1]
    ELSE [st EXCEPT !.clients = sendTo(@, clientId, "Claude not running")]

RECURSIVE processCommandQueue(_, _)
processCommandQueue(st, queue) ==
    IF queue = << >> THEN st
    ELSE processCommandQueue(executeCommand(st, Head(queue).clientId, Head(queue).data),
                             Tail(queue))

\* startClaude(): the ready state is reset, the ready check restarted and a
\* process spawned
startClaude ==
    /\ spawnCount < MaxSpawns
    /\ claudeReady' = FALSE
    /\ lastOutputTime' = now
    /\ readyCheckInterval' = TRUE
    /\ spawnCount' = spawnCount + 1
    /\ ptyProcess' = spawnCount + 1
    /\ alive' = alive \cup {spawnCount + 1}

\* stop(), with cl the clients and al the live processes it finds
stop(cl, al) ==
    /\ isShuttingDown' = TRUE
    /\ IF ~running
       THEN UNCHANGED schedVars
       ELSE /\ running' = FALSE
            /\ mainInterval' = 0
            /\ pollTimers' = pollTimers \ {mainInterval}
            /\ cronLive' = [id \in BagToSet(cronLive) \ cronJobs |-> cronLive[id]]
            /\ cronJobs' = {}
            /\ UNCHANGED <<reminders, alertHandler, checks, alertCount>>
    /\ LET st == StopEach(heap, JobOrder)
       IN  /\ objs' = st.objs
           /\ timers' = st.timers
    /\ started' = FALSE
    /\ UNCHANGED <<jobs, immediates, execs, okCount>>
    /\ readyCheckInterval' = FALSE
    /\ clients' = [c \in DOMAIN cl |->
                      LET b == broadcast(cl, "shutdown")[c]
                      IN  [b EXCEPT !.inMap = FALSE,
                                    !.socket = IF b.inMap /\ @ = "open" THEN "ended" ELSE @]]
    /\ listening' = FALSE
    /\ alive' = al \ {ptyProcess}

\* new ClaudeService({remote}) and start(); setupTriggers registers jobs
\* whose intervals, 30 minutes and more, lie beyond the clock of this model
SvcStart(remote) ==
    /\ spawnCount = 0 /\ ~listening /\ ~isShuttingDown /\ ~running /\ ~started
    /\ remoteMode' = remote
    /\ startClaude
    /\ listening' = TRUE
    /\ alertHandler' = "set"
    /\ LET h == NewTimer(pollTimers)
           c == checkDueReminders(checks, alertCount, reminders, "set", now)
           reg == setupRecurringReminders(
                      [cronJobs |-> cronJobs, cronLive |-> cronLive], reminders)
       IN  /\ running' = TRUE
           /\ mainInterval' = h
           /\ pollTimers' = pollTimers \cup {h}
           /\ checks' = c.checks
           /\ alertCount' = c.alertCount
           /\ cronJobs' = reg.cronJobs
           /\ cronLive' = reg.cronLive
           /\ UNCHANGED reminders
    /\ LET st == StartAll(heap, JobOrder)
       IN  /\ started' = TRUE
           /\ objs' = st.objs
           /\ timers' = st.timers
           /\ immediates' = st.immediates
           /\ UNCHANGED <<jobs, execs, okCount>>
    /\ result' = Ok("service start")
    /\ UNCHANGED <<now, restartAttempts, lastRestartTime, isShuttingDown, restartTimers,
                   commandQueue, enterTimers, written, clients, clientIdCounter,
                   endTimers, sentCount, apiKeys>>

\* a handleClaudeExit that never resets the counter
handleClaudeExit_neverResetting(attempts, last, clock) ==
    [restartAttempts |-> attempts + 1, lastRestartTime |-> clock,
     giveUp |-> attempts + 1 > MAX_RESTART_ATTEMPTS]

\* handleClaudeExit while not shutting down: the counter, the time kept and
\* whether the service gives up
handleClaudeExit(attempts, last, clock) ==
    LET counted == (IF clock - last > RESTART_RESET_TIME THEN 0 ELSE attempts) + 1
    IN  [restartAttempts |-> counted, lastRestartTime |-> clock,
         giveUp |-> counted > MAX_RESTART_ATTEMPTS]

\* the Claude process p exits: its onExit callback runs handleClaudeExit
ProcessExit(p) ==
    /\ p \in alive
    /\ IF isShuttingDown
       THEN /\ alive' = alive \ {p}
            /\ UNCHANGED <<schedVars, trigVars, listening, restartAttempts,
                           lastRestartTime, isShuttingDown, restartTimers,
                           readyCheckInterval, clients>>
       ELSE LET e == handleClaudeExit(restartAttempts, lastRestartTime, now)
            IN  /\ restartAttempts' = e.restartAttempts
                /\ lastRestartTime' = e.lastRestartTime
                /\ IF e.giveUp
                   THEN /\ stop(broadcast(clients, "error"), alive \ {p})
                        /\ UNCHANGED restartTimers
                   ELSE /\ clients' = broadcast(clients, "status")
                        /\ restartTimers' = Append(restartTimers, now + RESTART_DELAY)
                        /\ alive' = alive \ {p}
                        /\ UNCHANGED <<schedVars, trigVars, listening, isShuttingDown,
                                       readyCheckInterval>>
    /\ UNCHANGED <<now, result, remoteMode, ptyProcess, spawnCount, claudeReady,
                   lastOutputTime, commandQueue, enterTimers, written, clientIdCounter,
                   endTimers, sentCount, apiKeys>>

\* the setTimeout callback of handleClaudeExit runs once its delay is over
RestartFire(i) ==
    /\ i \in DOMAIN restartTimers
    /\ restartTimers[i] <= now
    /\ restartTimers' = RemoveAt(restartTimers, i)
    /\ startClaude
    /\ UNCHANGED <<now, result, schedVars, trigVars, remoteMode, listening,
                   restartAttempts, lastRestartTime, isShuttingDown, commandQueue,
                   enterTimers, written, clients, clientIdCounter, endTimers,
                   sentCount, apiKeys>>

\* a tick of the ready check that finds more than 4 seconds of silence
ReadyCheckFire ==
    /\ readyCheckInterval
    /\ now - lastOutputTime > 4000 /\ ~claudeReady
    /\ claudeReady' = TRUE
    /\ readyCheckInterval' = FALSE
    /\ LET st == processCommandQueue(
                     [written |-> written, enterTimers |-> enterTimers,
                      clients |-> clients], commandQueue)
       IN  /\ written' = st.written
           /\ enterTimers' = st.enterTimers
           /\ clients' = st.clients
    /\ commandQueue' = << >>
    /\ UNCHANGED <<now, result, schedVars, trigVars, remoteMode, listening, ptyProcess,
                   alive, spawnCount, restartAttempts, lastRestartTime, isShuttingDown,
                   restartTimers, lastOutputTime, clientIdCounter, endTimers,
                   sentCount, apiKeys>>

\* the setTimeout callback of executeCommand: the Enter key after a command
EnterFire ==
    /\ enterTimers > 0
    /\ enterTimers' = enterTimers - 1
    /\ written' = IF ptyProcess # 0 /\ ~isShuttingDown
                  THEN ptyWrite(written, "enter", 0) ELSE written
    /\ UNCHANGED <<now, result, schedVars, trigVars, remoteMode, listening, ptyProcess,
                   alive, spawnCount, restartAttempts, lastRestartTime, isShuttingDown,
                   restartTimers, claudeReady, lastOutputTime, readyCheckInterval,
                   commandQueue, clients, clientIdCounter, endTimers, sentCount,
                   apiKeys>>

\* the Claude process p prints: handleOutput
ProcessOutput(p) ==
    /\ p \in alive
    /\ lastOutputTime' = now
    /\ clients' = broadcast(clients, "output")
    /\ UNCHANGED <<now, result, schedVars, trigVars, remoteMode, listening, ptyProcess,
                   alive, spawnCount, restartAttempts, lastRestartTime, isShuttingDown,
                   restartTimers, claudeReady, readyCheckInterval, commandQueue,
                   enterTimers, written, clientIdCounter, endTimers, sentCount,
                   apiKeys>>

\* stop() called on the service
SvcStop ==
    /\ spawnCount > 0
    /\ stop(clients, alive)
    /\ result' = Ok("service stop")
    /\ UNCHANGED <<now, remoteMode, ptyProcess, spawnCount, restartAttempts,
                   lastRestartTime, restartTimers, claudeReady, lastOutputTime,
                   commandQueue, enterTimers, written, clientIdCounter, endTimers,
                   sentCount, apiKeys>>

\* handleClient(socket): a connection from a local or a non-local address;
\* without remote mode the server is bound to 127.0.0.1
ClientConnect(isLocal) ==
    /\ listening /\ clientIdCounter < MaxClients
    /\ remoteMode \/ isLocal
    /\ clientIdCounter' = clientIdCounter + 1
    /\ LET authenticated == ~remoteMode \/ isLocal
       IN  clients' = [clients EXCEPT ![clientIdCounter + 1] =
               [socket |-> "open", inMap |-> TRUE, isLocal |-> isLocal,
                authenticated |-> authenticated,
                got |-> {IF authenticated THEN "connected" ELSE "auth_required"}]]
    /\ UNCHANGED <<now, result, schedVars, trigVars, remoteMode, listening, ptyProcess,
                   alive, spawnCount, restartAttempts, lastRestartTime, isShuttingDown,
                   restartTimers, claudeReady, lastOutputTime, readyCheckInterval,
                   commandQueue, enterTimers, written, endTimers, sentCount, apiKeys>>

\* handleAuth(clientId, msg)
handleAuth(clientId, msg) ==
    IF ~clients[clientId].inMap
    THEN UNCHANGED <<clients, endTimers, apiKeys>>
    ELSE LET v == validate(apiKeys, msg.key, now)
         IN  /\ apiKeys' = v.keys
             /\ IF v.valid
                THEN /\ clients' = sendTo([clients EXCEPT ![clientId].authenticated = TRUE],
                                          clientId, "connected")
                     /\ UNCHANGED endTimers
                ELSE /\ clients' = sendTo(clients, clientId, "auth_failed")
                     /\ endTimers' = endTimers \cup {clientId}

\* handleMessage(clientId, msg), for the types 'input', 'command' and 'ping'
handleMessage(clientId, msg) ==
    LET st == [written |-> written, enterTimers |-> enterTimers, clients |-> clients,
               commandQueue |-> commandQueue]
        did == CASE msg.type = "input" ->
                      IF ptyProcess # 0
                      THEN [st EXCEPT !.written = ptyWrite(@, "input", msg.data)]
                      ELSE [st EXCEPT !.clients = sendTo(@, clientId, "Claude not running")]
                 [] msg.type = "command" ->
                      IF ~claudeReady
                      THEN [st EXCEPT !.clients = sendTo(@, clientId, "Waiting for Claude"),
                                      !.commandQueue = Append(@, [clientId |-> clientId,
                                                                  data |-> msg.data])]
                      ELSE executeCommand(st, clientId, msg.data)
                 [] msg.type = "ping" -> [st EXCEPT !.clients = sendTo(@, clientId, "pong")]
                 [] OTHER -> st
    IN  /\ written' = did.written
        /\ enterTimers' = did.enterTimers
        /\ clients' = did.clients
        /\ commandQueue' = did.commandQueue

\* one line arrives on the socket of a client: the 'data' listener of
\* handleClient.  A line that JSON.parse rejects is dropped.
ClientData(clientId, line) ==
    /\ clients[clientId].socket \in {"open", "ended"}
    /\ line.type \in {"command", "input"} => sentCount < MaxSent
    /\ sentCount' = IF line.type \in {"command", "input"} THEN sentCount + 1 ELSE sentCount
    /\ LET msg == [type |-> line.type, key |-> line.key, data |-> sentCount + 1]
       IN  IF line.type = "not JSON"
           THEN UNCHANGED <<clients, endTimers, apiKeys, commandQueue, written, enterTimers>>
           ELSE IF ~clients[clientId].authenticated
           THEN IF msg.type = "auth"
                THEN /\ handleAuth(clientId, msg)
                     /\ UNCHANGED <<commandQueue, written, enterTimers>>
                ELSE /\ clients' = sendTo(clients, clientId, "Authentication required")
                     /\ UNCHANGED <<endTimers, apiKeys, commandQueue, written, enterTimers>>
           ELSE /\ handleMessage(clientId, msg)
                /\ UNCHANGED <<endTimers, apiKeys>>
    /\ UNCHANGED <<now, result, schedVars, trigVars, remoteMode, listening, ptyProcess,
                   alive, spawnCount, restartAttempts, lastRestartTime, isShuttingDown,
                   restartTimers, claudeReady, lastOutputTime, readyCheckInterval,
                   clientIdCounter>>

\* the 'close' event of the socket of a client
ClientClose(clientId) ==
    /\ clients[clientId].socket \in {"open", "ended"}
    /\ clients' = [clients EXCEPT ![clientId].socket = "closed", ![clientId].inMap = FALSE]
    /\ UNCHANGED <<now, result, schedVars, trigVars, remoteMode, listening, ptyProcess,
                   alive, spawnCount, restartAttempts, lastRestartTime, isShuttingDown,
                   restartTimers, claudeReady, lastOutputTime, readyCheckInterval,
                   commandQueue, enterTimers, written, clientIdCounter, endTimers,
                   sentCount, apiKeys>>

\* the setTimeout callback of a failed handleAuth: socket.end()
EndFire(clientId) ==
    /\ clientId \in endTimers
    /\ endTimers' = endTimers \ {clientId}
    /\ clients' = [clients EXCEPT ![clientId].socket = IF @ = "open" THEN "ended" ELSE @]
    /\ UNCHANGED <<now, result, schedVars, trigVars, remoteMode, listening, ptyProcess,
                   alive, spawnCount, restartAttempts, lastRestartTime, isShuttingDown,
                   restartTimers, claudeReady, lastOutputTime, readyCheckInterval,
                   commandQueue, enterTimers, written, clientIdCounter, sentCount,
                   apiKeys>>

\* time passes, by d, up to the instant until; a restart timer runs when it
\* is due, so time does not pass the due time of a pending one
SvcAdvance(d, until) ==
    /\ now + d <= until
    /\ \A i \in DOMAIN restartTimers : now + d <= restartTimers[i]
    /\ now' = now + d
    /\ UNCHANGED <<result, schedVars, trigVars, svcVars>>

\* the Claude process crashing and being restarted, and the service stopped
RestartNext ==
    \/ SvcStart(FALSE)
    \/ \E p \in 1..MaxSpawns : ProcessExit(p)
    \/ \E i \in 1..2 : RestartFire(i)
    \/ ReadyCheckFire
    \/ SvcStop
    \/ \E d \in {RESTART_DELAY, RESTART_RESET_TIME - RESTART_DELAY} :
           SvcAdvance(d, RestartHorizon)

RestartSpec == Init /\ [][RestartNext]_vars

\* one local client sending commands while Claude starts,
\* crashes and is restarted
CommandNext ==
    \/ SvcStart(FALSE)
    \/ \E p \in 1..MaxSpawns : ProcessExit(p)
    \/ \E i \in 1..2 : RestartFire(i)
    \/ ReadyCheckFire
    \/ EnterFire
    \/ SvcStop
    \/ clientIdCounter = 0 /\ ClientConnect(TRUE)
    \/ \E c \in 1..MaxClients :
           ClientData(c, [type |-> "command", key |-> Undefined])
    \/ \E c \in 1..MaxClients : ClientClose(c)
    \/ SvcAdvance(RESTART_DELAY, CommandHorizon)

CommandSpec == Init /\ [][CommandNext]_vars

\* a service in remote mode with local and non-local clients
AuthNext ==
    \/ SvcStart(TRUE)
    \/ \E p \in 1..MaxSpawns : ProcessOutput(p)
    \/ SvcStop
    \/ \E isLocal \in BOOLEAN : ClientConnect(isLocal)
    \/ \E c \in 1..MaxClients :
           \/ \E key \in {Str("secret"), Str("guess"), Str(""), Num(7), Undefined} :
                  ClientData(c, [type |-> "auth", key |-> key])
           \/ \E t \in {"command", "input", "not JSON"} :
                  ClientData(c, [type |-> t, key |-> Undefined])
           \/ ClientClose(c)
           \/ EndFire(c)

AuthSpec == Init /\ [][AuthNext]_vars

\* --------------------------------------------- properties of the scheduler
IsOnce(id) == reminders[id].trigger_at # NULL
IsRecurring(id) == reminders[id].cron_expression # NULL

\* C1: the alert callback is invoked at most once for a one-time reminder,
\* whatever the interleaving of poll ticks, start()'s immediate check and a
\* callback that is slow to settle.
C1_AlertedAtMostOnce ==
    \A id \in DOMAIN reminders : IsOnce(id) => alertCount[id] <= 1

\* C2: a reminder's status changes only from pending: completed and
\* cancelled are terminal.
C2_StatusTerminal ==
    [][\A id \in DOMAIN reminders :
          reminders[id].status # "pending"
              => reminders'[id].status = reminders[id].status]_vars

\* C4: every stored reminder has exactly one of trigger_at and
\* cron_expression non-null.
C4_ExactlyOneSchedule ==
    \A id \in DOMAIN reminders :
        (reminders[id].trigger_at = NULL) # (reminders[id].cron_expression = NULL)

C4_Witness ==
    /\ result.op = "addReminder"
    /\ \E i, j \in DOMAIN reminders : IsOnce(i) /\ IsRecurring(j)

\* C5: addReminder with a time that parseReminderTime cannot parse throws an
\* error that carries the text, and leaves the store, the cron-timer registry,
\* the timers and the running flag as they were.
C5_ParseFailureThrows ==
    [][\A m \in Messages : \A t \in TimeSpecs : \A c \in Channels :
          (/\ result'.op = "addReminder"
           /\ parseReminderTime(t, now) = NULL
           /\ AddReminder(m, t, c))
              => /\ result' = Threw("addReminder", "Could not parse time", t)
                 /\ UNCHANGED <<reminders, cronJobs, cronLive, running,
                                mainInterval, pollTimers>>]_vars

C5_Witness ==
    /\ result.err = "Could not parse time"
    /\ result.text = <<W("sometime"), W("next"), W("blorp")>>
    /\ running
    /\ cronJobs # {}

\* C10: cancelReminder(id) never throws, changes nothing when id is unknown
\* or already cancelled, and never changes another reminder's row or cron
\* timer.
C10_CancelLocal ==
    [][\A id \in 1..(MaxReminders + 1) :
          CancelReminder(id)
              => /\ result'.err = ""
                 /\ DOMAIN reminders' = DOMAIN reminders
                 /\ \A j \in DOMAIN reminders \ {id} :
                        /\ reminders'[j] = reminders[j]
                        /\ (j \in cronJobs') = (j \in cronJobs)
                        /\ CopiesIn(j, cronLive') = CopiesIn(j, cronLive)
                 /\ (id \notin DOMAIN reminders \/ reminders[id].status = "cancelled")
                        => reminders' = reminders /\ cronJobs' = cronJobs]_vars

C10_Witness ==
    /\ result.op = "cancelReminder, no live row"
    /\ \E i, j \in DOMAIN reminders :
           /\ reminders[i].status = "cancelled"
           /\ reminders[j].status = "pending"
           /\ j \in cronJobs

\* C11: the status of a recurring reminder is never completed, and it changes
\* only in a cancelReminder of that reminder, which makes it cancelled; cron
\* fires and due-checks leave it pending.
C11_RecurringStaysPending ==
    [][/\ \A id \in DOMAIN reminders' :
              reminders'[id].cron_expression # NULL
                  => reminders'[id].status # "completed"
       /\ \A id \in DOMAIN reminders :
              (IsRecurring(id) /\ reminders'[id].status # reminders[id].status)
                  => CancelReminder(id) /\ reminders'[id].status = "cancelled"]_vars

C11_Witness ==
    \E id, j \in DOMAIN reminders :
        /\ IsRecurring(id)
        /\ reminders[id].status = "pending"
        /\ alertCount[id] = 2
        /\ IsOnce(j)
        /\ reminders[j].status = "completed"
        /\ alertCount[j] >= 1

\* C12: while the scheduler stays running and the alert callback settles, a
\* pending one-time reminder whose trigger_at has passed is eventually
\* completed unless it is cancelled; one that no due-check has fetched yet is
\* eventually dispatched to the alert callback while a callback is set.
IsDue(id) ==
    /\ id \in DOMAIN reminders
    /\ IsOnce(id)
    /\ reminders[id].status = "pending"
    /\ datetime(reminders[id].trigger_at.iso) <= datetime(now)

Fetched(id) ==
    \E i \in DOMAIN checks : \E k \in DOMAIN checks[i].list : checks[i].list[k] = id

StatusIn(id, statuses) ==
    id \in DOMAIN reminders /\ reminders[id].status \in statuses

Alerted(id) == id \in DOMAIN alertCount /\ alertCount[id] >= 1

C12_DueEventuallyCompleted ==
    \A id \in 1..MaxReminders :
        /\ (running /\ IsDue(id))
               ~> (~running \/ StatusIn(id, {"completed", "cancelled"}))
        /\ (running /\ IsDue(id) /\ ~Fetched(id) /\ ~Alerted(id))
               ~> \/ ~running
                  \/ alertHandler = "none"
                  \/ StatusIn(id, {"cancelled"})
                  \/ Alerted(id)

C12_Witness ==
    \E id \in DOMAIN reminders :
        /\ running
        /\ IsOnce(id)
        /\ reminders[id].status = "completed"
        /\ alertCount[id] = 1
        /\ reminders[id].trigger_at.iso > ClockStep
        /\ checks = << >>

\* C13: when the alert callback rejects for a due reminder, the due-check goes
\* on: that reminder is completed, so no later due query returns it, and the
\* rest of the fetched list stays with the check, its first reminder
\* dispatched.
C13_RejectionDoesNotAbort ==
    [][\A i \in DOMAIN checks :
          (checks[i].called /\ CheckResume(i, "rejected"))
              => LET list == checks[i].list
                     rest == Tail(list)
                 IN  /\ reminders'[Head(list)].status = "completed"
                     /\ \A k \in DOMAIN getDueReminders(reminders', now') :
                            getDueReminders(reminders', now')[k] # Head(list)
                     /\ rest # << >>
                            => /\ \E j \in DOMAIN checks' :
                                      checks'[j].list = rest /\ checks'[j].errors
                               /\ alertHandler = "set" => alertCount'[Head(rest)] >= 1]_vars

C13_Witness ==
    \E i \in DOMAIN checks : \E id \in DOMAIN reminders :
        /\ checks[i].errors
        /\ checks[i].called
        /\ alertCount[Head(checks[i].list)] >= 1
        /\ reminders[Head(checks[i].list)].status = "pending"
        /\ reminders[id].status = "completed"
        /\ alertCount[id] >= 1

\* C14: a due-check works through its list in ascending trigger_at, one
\* reminder at a time: a one-time reminder is completed only when the alert
\* callback awaited for it, as the first of a check's list, settles, and a
\* reminder is dispatched only as the first of a list just fetched or as the
\* successor of the reminder that the same step completes.
Ascending(rs, list) ==
    \A p, q \in DOMAIN list :
        p < q => rs[list[p]].trigger_at.iso <= rs[list[q]].trigger_at.iso

C14_SequentialInOrder ==
    [][/\ \A i \in DOMAIN checks' : Ascending(reminders', checks'[i].list)
       /\ \A id \in DOMAIN reminders :
              /\ (IsOnce(id) /\ reminders[id].status # "completed"
                             /\ reminders'[id].status = "completed")
                     => \E i \in DOMAIN checks : \E outcome \in {"resolved", "rejected"} :
                            Head(checks[i].list) = id /\ CheckResume(i, outcome)
              /\ (IsOnce(id) /\ alertCount'[id] # alertCount[id])
                     => \/ /\ Len(checks') = Len(checks) + 1
                            /\ Head(checks'[Len(checks')].list) = id
                        \/ \E i \in DOMAIN checks :
                               /\ Len(checks[i].list) >= 2
                               /\ checks[i].list[2] = id
                               /\ reminders'[Head(checks[i].list)].status = "completed"
                               /\ \E outcome \in {"resolved", "rejected"} :
                                      CheckResume(i, outcome)]_vars

C14_Witness ==
    \E i \in DOMAIN checks :
        /\ checks[i].list = <<2, 1>>
        /\ reminders[2].trigger_at.iso < reminders[1].trigger_at.iso
        /\ alertCount[2] = 1
        /\ alertCount[1] = 0
        /\ reminders[1].status = "pending"
        /\ reminders[2].status = "pending"

\* C15: start() on a running scheduler changes nothing, and in every state
\* there is at most one armed poll timer, at most one live cron timer per
\* reminder, and a poll timer is armed exactly when running is true.
C15_StartIdempotent ==
    [][/\ (running /\ Start) => UNCHANGED schedVars
       /\ Cardinality(pollTimers') <= 1
       /\ \A id \in BagToSet(cronLive') : CopiesIn(id, cronLive') <= 1
       /\ (pollTimers' # {}) <=> running'
       /\ running' => pollTimers' = {mainInterval'}]_vars

C15_Witness ==
    /\ result.op = "start, already running"
    /\ running
    /\ Cardinality(pollTimers) = 1
    /\ \E id \in cronJobs : CopiesIn(id, cronLive) = 1
    /\ \E id \in DOMAIN reminders : reminders[id].status = "cancelled"

\* C16: stop() leaves every reminder as it is, and whenever running is false
\* no poll timer is armed, no cron timer is live and the cron-timer registry
\* is empty; so it is after stop() has returned.
C16_StoppedMeansNoTimers ==
    [][/\ Stop => reminders' = reminders /\ ~running'
       /\ ~running' => /\ pollTimers' = {}
                       /\ mainInterval' = 0
                       /\ cronLive' = EmptyBag
                       /\ cronJobs' = {}]_vars

C16_Witness ==
    /\ result.op = "stop"
    /\ ~running
    /\ pollTimers = {}
    /\ cronLive = EmptyBag
    /\ \E id \in DOMAIN reminders :
           IsRecurring(id) /\ reminders[id].status = "pending" /\ alertCount[id] >= 1
    /\ checks # << >>

\* C17: while the scheduler is running, every pending recurring reminder has
\* a cron timer in the registry, and that timer is live.
C17_PendingRecurringArmed ==
    running =>
        \A id \in DOMAIN reminders :
            (IsRecurring(id) /\ reminders[id].status = "pending")
                => id \in cronJobs /\ CopiesIn(id, cronLive) = 1

\* C18: every id of the cron-timer registry belongs to a recurring reminder
\* that is still pending, and only registered timers are live: a cancelled
\* reminder has no timer, also after a later stop() and start().
C18_RegistryHoldsPendingRecurring ==
    /\ \A id \in cronJobs :
           /\ id \in DOMAIN reminders
           /\ IsRecurring(id)
           /\ reminders[id].status = "pending"
    /\ BagToSet(cronLive) \subseteq cronJobs

C18_Witness ==
    /\ result.op = "start"
    /\ running
    /\ \E id, j \in DOMAIN reminders :
           /\ IsRecurring(id)
           /\ reminders[id].status = "cancelled"
           /\ alertCount[id] >= 1
           /\ id \notin cronJobs
           /\ j \in cronJobs

\* --------------------------------------- properties of the trigger service
Registered(o) == \E n \in Names : jobs[n] = o

InFlightIn(inflight, o) ==
    Cardinality({i \in DOMAIN inflight : inflight[i].obj = o})

InFlight(o) == InFlightIn(execs, o)

Meta(o) ==
    <<objs[o].runCount, objs[o].lastRun, objs[o].lastDuration, objs[o].lastError,
      objs[o].description>>

\* C3 (as stated): at most one execution of a job's handler is in flight.
C3_AtMostOneInFlight == \A o \in 1..MaxObjs : InFlight(o) <= 1

\* C3 (amended): executions of one job are not serialized. A trigger(name)
\* of a registered job, a tick of its interval timer and its setImmediate
\* callback each start an execution of the handler whatever executions of
\* that job are still in flight, so these can overlap.
C3_NotSerialized ==
    [][/\ \A n \in Names :
              (jobs[n] # 0 /\ Trigger(n))
                  => InFlightIn(execs', jobs[n]) = InFlight(jobs[n]) + 1
       /\ \A t \in BagToSet(timers) :
              TimerFire(t) => InFlightIn(execs', t.obj) = InFlight(t.obj) + 1
       /\ (immediates # << >> /\ ImmediateRun)
              => InFlightIn(execs', Head(immediates))
                     = InFlight(Head(immediates)) + 1]_vars

C3_Witness ==
    /\ result.op = "trigger"
    /\ \E n \in Names :
           /\ jobs[n] # 0
           /\ InFlight(jobs[n]) >= 2
           /\ objs[jobs[n]].timer # 0

\* C6: register throws and leaves the registry, every job and every timer
\* as they were when the name is taken, when interval is not a positive
\* number, or when handler is not a function.
IsPositiveNumber(x) == x.type = "number" /\ ~x.nan /\ x.v > 0

C6_RegisterRejects ==
    [][\A n \in RegisterNames : \A iv \in IntervalInputs : \A h \in HandlerInputs :
       \A im \in BOOLEAN : \A en \in BOOLEAN : \A d \in Descriptions :
          (/\ jobs[n] # 0 \/ ~IsPositiveNumber(iv) \/ h.type # "function"
           /\ Register(n, iv, h, im, en, d))
              => /\ result'.op = "register"
                 /\ result'.err # ""
                 /\ UNCHANGED trigVars]_vars

\* C7: runCount, lastRun, lastDuration, lastError and description of a
\* registered job change only in a step in which an execution of that job
\* settles; stop, startJob, updateInterval, start and stopAll keep them.
C7_MetadataOnlyByExecution ==
    [][\A o \in 1..MaxObjs :
          (Registered(o) /\ Registered(o)' /\ Meta(o)' # Meta(o))
              => \E i \in DOMAIN execs : \E outcome \in {"ok", "fail"} :
                     execs[i].obj = o /\ HandlerSettle(i, outcome)]_vars

C7_Witness ==
    /\ result.op = "startJob"
    /\ \E n \in Names :
           /\ jobs[n] # 0
           /\ objs[jobs[n]].runCount >= 1
           /\ objs[jobs[n]].enabled
           /\ objs[jobs[n]].timer # 0

\* C8: when the handler of an execution throws or rejects, the job's
\* lastError becomes non-null, its runCount, timer and enabled flag stay as
\* they were, and the timer it holds is still live.
C8_FailureKeepsJobArmed ==
    [][\A i \in DOMAIN execs :
          (Registered(execs[i].obj) /\ HandlerSettle(i, "fail"))
              => LET o == execs[i].obj
                 IN  /\ objs'[o].lastError # NoValue
                     /\ objs'[o].runCount = objs[o].runCount
                     /\ objs'[o].timer = objs[o].timer
                     /\ objs'[o].enabled = objs[o].enabled
                     /\ timers' = timers
                     /\ objs[o].timer # 0
                            => CopiesIn(Timeout(o, objs[o].timer), timers') = 1]_vars

C8_Witness ==
    \E n \in Names :
        /\ jobs[n] # 0
        /\ objs[jobs[n]].lastError # NoValue
        /\ objs[jobs[n]].runCount = 0
        /\ objs[jobs[n]].enabled
        /\ CopiesIn(Timeout(jobs[n], objs[jobs[n]].timer), timers) = 1
        /\ \E i \in DOMAIN execs :
               execs[i].obj = jobs[n] /\ execs[i].startTime > objs[jobs[n]].lastError

\* C9: the runCount of a registered job is the number of its executions whose
\* handler completed since it was registered, overlapping ones included, and
\* every such completion sets lastError to null.
C9_RunCountCountsCompletions ==
    [][/\ \A o \in 1..MaxObjs : Registered(o)' => objs'[o].runCount = okCount'[o]
       /\ \A i \in DOMAIN execs :
              (Registered(execs[i].obj) /\ HandlerSettle(i, "ok"))
                  => objs'[execs[i].obj].lastError = NoValue]_vars

C9_Witness ==
    \E n \in Names :
        /\ jobs[n] # 0
        /\ objs[jobs[n]].runCount >= 1
        /\ okCount[jobs[n]] = objs[jobs[n]].runCount
        /\ objs[jobs[n]].lastError = NoValue
        /\ \E i \in DOMAIN execs :
               /\ execs[i].obj = jobs[n]
               /\ execs[i].startTime
                      < objs[jobs[n]].lastRun + objs[jobs[n]].lastDuration

\* C19: stop, startJob, updateInterval and trigger with a name that is not
\* registered each throw an error that names the job, start no execution and
\* leave the registry, every job, every timer and the started flag as they
\* were.
C19_MissingJobThrows ==
    [][\A n \in Names :
          (/\ jobs[n] = 0
           /\ \/ TrigStop(n)
              \/ \E im \in BOOLEAN : StartJob(n, im)
              \/ \E iv \in UpdateInputs : UpdateInterval(n, iv)
              \/ Trigger(n))
              => /\ result'.err = "not found"
                 /\ result'.text = <<W(n)>>
                 /\ result'.op \in {"stop", "startJob", "updateInterval", "trigger"}
                 /\ UNCHANGED trigVars]_vars

C19_Witness ==
    /\ result = Threw("trigger", "not found", <<W("b")>>)
    /\ started
    /\ jobs["a"] # 0
    /\ objs[jobs["a"]].timer # 0
    /\ InFlight(jobs["a"]) >= 1

\* C20: stopAll() keeps every job registered with its runCount, lastRun,
\* lastDuration and lastError, leaves each of them disabled and without a
\* timer, and leaves the service not started; shutdown() also empties the
\* registry.
C20_StopAllKeepsJobs ==
    [][/\ StopAll
              => /\ jobs' = jobs
                 /\ ~started'
                 /\ \A n \in Names :
                        jobs[n] # 0
                            => /\ Meta(jobs[n])' = Meta(jobs[n])
                               /\ objs'[jobs[n]].timer = 0
                               /\ ~objs'[jobs[n]].enabled
                               /\ \A t \in BagToSet(timers') : t.obj # jobs[n]
       /\ Shutdown
              => /\ \A n \in Names : jobs'[n] = 0
                 /\ ~started'
                 /\ timers' = EmptyBag]_vars

C20_Witness ==
    /\ result.op = "stopAll"
    /\ ~started
    /\ timers = EmptyBag
    /\ \A n \in Names :
           /\ jobs[n] # 0
           /\ objs[jobs[n]].runCount >= 1
           /\ ~objs[jobs[n]].enabled
    /\ \E n \in Names : objs[jobs[n]].lastError # NoValue

\* C21: after start() on a service that was not started, every registered
\* job is enabled and holds a live timer, whatever state it was in.
C21_StartEnablesAll ==
    [][(~started /\ TrigStart)
          => \A n \in Names :
                 jobs[n] # 0
                     => /\ objs'[jobs[n]].enabled
                        /\ objs'[jobs[n]].timer # 0
                        /\ \E t \in BagToSet(timers') : t.obj = jobs[n]]_vars

\* C22: a register() that succeeds starts no execution itself. On a started
\* service an enabled job leaves it with a live timer of its period, and
\* with immediate = true with exactly one setImmediate callback queued for
\* it; on a service that is not started, or for a disabled job, no timer is
\* armed and nothing is queued.
C22_RegisterArms ==
    [][\A n \in RegisterNames : \A iv \in IntervalInputs : \A h \in HandlerInputs :
       \A im \in BOOLEAN : \A en \in BOOLEAN : \A d \in Descriptions :
          (/\ jobs[n] = 0
           /\ jobs'[n] # 0
           /\ Register(n, iv, h, im, en, d))
              => LET o == jobs'[n]
                 IN  /\ execs' = execs
                     /\ IF en /\ started
                        THEN /\ objs'[o].timer = TimerPeriod(iv)
                             /\ timers' = timers (+) SetToBag({Timeout(o, TimerPeriod(iv))})
                             /\ immediates' = IF im THEN Append(immediates, o)
                                              ELSE immediates
                        ELSE /\ objs'[o].timer = 0
                             /\ timers' = timers
                             /\ immediates' = immediates]_vars

C22_Witness ==
    /\ result.op = "register"
    /\ started
    /\ jobs["a"] # 0
    /\ immediates = <<jobs["a"]>>
    /\ CopiesIn(Timeout(jobs["a"], objs[jobs["a"]].timer), timers) = 1
    /\ InFlight(jobs["a"]) = 0

\* C23: updateInterval of a registered job with a positive number stores the
\* interval, replaces the timer of an armed job by one of the new period,
\* leaves an unarmed job unarmed, and keeps runCount, lastRun, lastDuration,
\* lastError and enabled; with any other value it throws and leaves the
\* job and the timers as they were.
C23_UpdateInterval ==
    [][\A n \in Names : \A iv \in UpdateInputs :
          (jobs[n] # 0 /\ UpdateInterval(n, iv))
              => LET o == jobs[n]
                 IN  IF IsPositiveNumber(iv)
                     THEN /\ result'.err = ""
                          /\ objs'[o].interval = iv
                          /\ Meta(o)' = Meta(o)
                          /\ objs'[o].enabled = objs[o].enabled
                          /\ IF objs[o].timer # 0
                             THEN /\ objs'[o].timer = TimerPeriod(iv)
                                  /\ timers' = (timers (-) SetToBag({Timeout(o, objs[o].timer)}))
                                                   (+) SetToBag({Timeout(o, TimerPeriod(iv))})
                             ELSE /\ objs'[o].timer = 0
                                  /\ timers' = timers
                     ELSE /\ result'.err # ""
                          /\ objs' = objs
                          /\ timers' = timers]_vars

\* C24: an execution of one job, from its start to the settling of its
\* handler with success or failure, changes no other registered job, no
\* timer, and neither the registry nor the started flag; a failure ends
\* that execution only.
C24_ExecutionIsLocal ==
    [][/\ \A i \in DOMAIN execs : \A outcome \in {"ok", "fail"} :
              HandlerSettle(i, outcome)
                  => /\ \A o \in DOMAIN objs :
                            (Registered(o) /\ o # execs[i].obj) => objs'[o] = objs[o]
                     /\ timers' = timers
                     /\ jobs' = jobs
                     /\ started' = started
                     /\ execs' = RemoveAt(execs, i)
       /\ ((\E t \in BagToSet(timers) : TimerFire(t)) \/ (\E n \in Names : Trigger(n)))
              => objs' = objs /\ timers' = timers /\ jobs' = jobs]_vars

C24_Witness ==
    /\ jobs["a"] # 0
    /\ jobs["b"] # 0
    /\ objs[jobs["a"]].lastError # NoValue
    /\ objs[jobs["a"]].runCount = 0
    /\ objs[jobs["b"]].lastError = NoValue
    /\ objs[jobs["b"]].runCount >= 1
    /\ CopiesIn(Timeout(jobs["a"], objs[jobs["a"]].timer), timers) = 1
    /\ CopiesIn(Timeout(jobs["b"], objs[jobs["b"]].timer), timers) = 1
    /\ InFlight(jobs["b"]) >= 1

\* ------------------------------------------------ properties of the parser
\* milliseconds of the units of a relative duration, as the documentation
\* gives them
UnitMs(unit) ==
    CASE unit \in {"second", "seconds"} -> 1000
      [] unit \in {"minute", "minutes"} -> 60000
      [] unit \in {"hour", "hours"} -> 3600000
      [] unit \in {"day", "days"} -> 86400000
      [] unit \in {"week", "weeks"} -> 604800000

\* C25, as stated: parseReminderTime gives type recurring to a text that
\* holds both a recurring pattern and a relative duration.
C25_RecurringFirst ==
    (result.op = "parseReminderTime" /\ result.text \in MixedTexts)
        => result.value.type = "recurring"

\* C25, amended: parseReminderTime looks for a relative duration first, then
\* for a recurring pattern, then for a natural-language phrase; a text that
\* holds both a recurring pattern and "in N <unit>" gives type once with the
\* date now + N units, and a recurring pattern alone gives type recurring.
C25_RelativeFirst ==
    result.op = "parseReminderTime" =>
        /\ \A r \in RecurringSamples : \A i \in RelativeSamples :
               result.text \in {r \o i, i \o r} =>
                   result.value = [type |-> "once",
                                   date |-> now + i[2].n * UnitMs(i[3].s),
                                   text |-> result.text]
        /\ result.text \in RecurringSamples => result.value.type = "recurring"

C25_Witness ==
    /\ result.op = "parseReminderTime"
    /\ result.text = EveryAtText("day", 9, -1, "am") \o InText(2, 1, "hours")
    /\ result.value.type = "once"
    /\ result.value.date = now + 2 * 3600000

\* C26: for "every N minute(s)" with N > 0, parseCronPattern returns the
\* cron whose minute field is */N and whose other four fields are *, and
\* parseReminderTime returns type recurring with that cron.
C26_EveryNMinutes ==
    LET t == result.text
        everyN == /\ t \in EveryNTexts
                  /\ t[3].s \in {"minute", "minutes"}
                  /\ t[2].n > 0
        cron == << <<W("*"), W("/"), N(t[2].n, Digits(t[2].n))>>,
                   <<W("*")>>, <<W("*")>>, <<W("*")>>, <<W("*")>> >>
    IN  /\ (result.op = "parseCronPattern" /\ everyN) =>
               result.value # NULL /\ result.value.cron = cron
        /\ (result.op = "parseReminderTime" /\ everyN) =>
               result.value # NULL /\ result.value.type = "recurring"
                                   /\ result.value.cron = cron

C26_Witness ==
    /\ result.op = "parseReminderTime"
    /\ result.text = <<W("every"), N(15, 2), W("minutes")>>
    /\ result.value.type = "recurring"
    /\ result.value.cron[1] = <<W("*"), W("/"), N(15, 2)>>

\* C27: "every day at", "every weekday at" and "every <weekday-name> at"
\* followed by H[:MM][am|pm] give the cron "MM HH * * D": MM the minute given
\* or 0, D the field *, 1-5 or the number of the weekday (sunday = 0), HH
\* the hour H + 12 for pm with H < 12, 0 for am with H = 12, and H otherwise.
C27_EveryDayAt ==
    \A w \in AtParts.dayWords : \A h \in AtParts.hours :
    \A m \in AtParts.minutes : \A a \in AtParts.ampms :
        (result.op = "parseCronPattern" /\ result.text = EveryAtText(w, h, m, a)) =>
            LET MM == IF m < 0 THEN 0 ELSE m
                HH == IF a = "pm" /\ h < 12 THEN h + 12
                      ELSE IF a = "am" /\ h = 12 THEN 0
                      ELSE h
                D == CASE w = "day" -> <<W("*")>>
                       [] w = "weekday" -> <<N(1, 1), W("-"), N(5, 1)>>
                       [] w = "sunday" -> <<N(0, 1)>>
                       [] w = "mon" -> <<N(1, 1)>>
                       [] w = "saturday" -> <<N(6, 1)>>
            IN  /\ result.value # NULL
                /\ result.value.cron =
                       << <<N(MM, Digits(MM))>>, <<N(HH, Digits(HH))>>,
                          <<W("*")>>, <<W("*")>>, D >>

C27_Witness ==
    /\ result.op = "parseCronPattern"
    /\ result.text = <<W("every"), W("weekday"), W("at"), N(9, 1), W("am")>>
    /\ CronString(result.value.cron) =
           <<N(0, 1), W(" "), N(9, 1), W(" "), W("*"), W(" "), W("*"), W(" "),
             N(1, 1), W("-"), N(5, 1)>>

\* C28: for "in N <unit>" with unit second, minute, hour, day or week,
\* singular or plural, parseReminderTime returns type once with the date
\* now + N * (1000, 60000, 3600000, 86400000, 604800000) ms; it returns
\* neither null nor type recurring.
C28_RelativeOnce ==
    (result.op = "parseReminderTime" /\ result.text \in RelativeTexts) =>
        LET t == result.text
            p == CHOOSE p \in DOMAIN t : t[p].k = "w" /\ t[p].s \in {"in", "In"}
        IN  /\ result.value # NULL
            /\ result.value.type = "once"
            /\ result.value.date = now + t[p + 1].n * UnitMs(t[p + 2].s)

C28_Witness ==
    /\ result.op = "parseReminderTime"
    /\ result.text = <<W("in"), N(30, 2), W("minutes")>>
    /\ now = 86400000 + 1000
    /\ result.value.type = "once"
    /\ result.value.date = 86400000 + 1000 + 30 * 60000

\* C29: isValidCron is true exactly when the expression, leading and
\* trailing whitespace aside, has five whitespace-separated fields and each
\* is *, a number, a step */N or N/M, or a comma-separated list of numbers
\* and ranges of numbers; no value is compared with a range, so a minute of
\* 99 passes, and three fields are rejected.
C29_IsValidCron ==
    result.op = "isValidCron" =>
        LET s == result.text
            sp == W(" ")
            starts == {a \in DOMAIN s : s[a] # sp /\ (a = 1 \/ s[a - 1] = sp)}
            EndOf(a) == CHOOSE b \in a..Len(s) :
                            /\ \A k \in a..b : s[k] # sp
                            /\ b = Len(s) \/ s[b + 1] = sp
            IsNumber(t) == t.k = "n"
            Is(t, c) == t.k = "w" /\ t.s = c
            FieldOk(f) ==
                \/ Len(f) = 1 /\ (Is(f[1], "*") \/ IsNumber(f[1]))
                \/ /\ Len(f) = 3
                   /\ Is(f[1], "*") \/ IsNumber(f[1])
                   /\ Is(f[2], "/")
                   /\ IsNumber(f[3])
                \/ /\ Len(f) % 2 = 1
                   /\ \A k \in DOMAIN f :
                          IF k % 2 = 1 THEN IsNumber(f[k])
                          ELSE Is(f[k], ",") \/ Is(f[k], "-")
                   /\ \A k \in DOMAIN f :
                          (k + 2 \in DOMAIN f /\ Is(f[k], "-")) => ~Is(f[k + 2], "-")
        IN  /\ result.value =
                   (/\ Cardinality(starts) = 5
                    /\ \A a \in starts : FieldOk(SubSeq(s, a, EndOf(a))))
            /\ s = <<N(99, 2), sp, W("*"), sp, W("*"), sp, W("*"), sp, W("*")>>
                   => result.value = TRUE
            /\ s = <<W("*"), sp, W("*"), sp, W("*")>> => result.value = FALSE

C29_Witness ==
    /\ result.op = "isValidCron"
    /\ result.text = <<W(" "), W("*"), W(" "), W("*"), W(" "), W("*"), W(" "),
                       W("*"), W(" "), W("*"), W(" "), W(" ")>>
    /\ result.value = TRUE

C31_NextRun ==
    [][\A n \in Names :
          (GetStatus(n) /\ jobs[n] # 0) =>
              LET job == objs[jobs[n]]
                  armed == job.enabled /\ job.timer # 0
                  base == IF job.lastRun # NoValue THEN job.lastRun ELSE job.createdAt
              IN  /\ result'.err = ""
                  /\ (result'.status.nextRun = NULL) <=> ~armed
                  /\ armed =>
                         /\ result'.status.nextRun =
                                [iso |-> IF base + job.interval.v >= now
                                         THEN base + job.interval.v
                                         ELSE now + job.interval.v]
                         /\ result'.status.nextRun.iso >= now]_vars

\* C33: a registered job holds an armed interval timer if and only if the
\* job is enabled and the service is started.
C33_ArmedIffEnabledAndStarted ==
    \A n \in Names :
        jobs[n] # 0 =>
            LET job == objs[jobs[n]]
                live == {t \in BagToSet(timers) : t.obj = jobs[n]}
            IN  /\ (job.timer # 0) <=> (job.enabled /\ started)
                /\ (live # {}) <=> (job.enabled /\ started)

C33_Witness ==
    /\ result = Ok("updateInterval")
    /\ jobs["a"] # 0
    /\ started
    /\ objs[jobs["a"]].enabled
    /\ objs[jobs["a"]].interval = Num(2000)
    /\ CopiesIn(Timeout(jobs["a"], 2000), timers) = 1

\* C34: no interval timer is leaked: every live interval timer belongs to a
\* registered job and is the one recorded in its job.timer, a job has at most
\* one live interval timer, and a job that was unregistered or removed by
\* shutdown has none.
C34_NoTimerLeak ==
    /\ \A t \in BagToSet(timers) :
           /\ CopiesIn(t, timers) = 1
           /\ \E n \in Names : jobs[n] = t.obj
           /\ objs[t.obj].timer = t.period
    /\ \A t1 \in BagToSet(timers) : \A t2 \in BagToSet(timers) :
           t1.obj = t2.obj => t1 = t2

\* after an unregister on a started service, an execution still in flight
C34_Witness ==
    /\ result = Ok("unregister")
    /\ jobs["a"] = 0
    /\ started
    /\ timers = EmptyBag
    /\ execs # << >>

\* C35: once stop(name), unregister(name), stopAll() or shutdown() has
\* returned, no execution of the job's handler begins before the job is armed
\* again or trigger(name) is called: an execution begun by an interval timer
\* or by the queued immediate run is one of a registered job that is armed.
C35_NoRunAfterStop ==
    [][/\ \A t \in BagToSet(timers) :
              TimerFire(t) => Registered(t.obj) /\ objs[t.obj].timer # 0
       /\ ImmediateRun =>
              Registered(Head(immediates)) /\ objs[Head(immediates)].timer # 0]_vars

\* C37: the lastRun of a job never decreases: every execution that settles
\* sets lastRun to a start time that is not before the value it replaces.
C37_LastRunMonotonic ==
    [][\A i \in DOMAIN execs : \A outcome \in {"ok", "fail"} :
          (HandlerSettle(i, outcome) /\ objs[execs[i].obj].lastRun # NoValue) =>
              /\ execs[i].startTime >= objs[execs[i].obj].lastRun
              /\ Registered(execs[i].obj) =>
                     objs'[execs[i].obj].lastRun >= objs[execs[i].obj].lastRun]_vars

\* C36: after cancelReminder(id) has returned, the alert callback is not
\* invoked for reminder id again, neither by its cron task nor by a due-check
\* that fetched its list before the cancel.
C36_NoAlertAfterCancel ==
    [][\A id \in DOMAIN reminders :
          reminders[id].status = "cancelled" => alertCount'[id] = alertCount[id]]_vars

\* ------------------------------------------- properties of the ClaudeService
\* C32: whenever the Claude process exits while the service is not shutting
\* down, the exit is counted and a restart is scheduled 2 seconds later, for
\* up to 10 attempts; the count starts again (this exit being attempt 1) only
\* when the exit comes more than 60 seconds after the previous one; when the
\* count would exceed 10 the service stops itself and schedules no restart,
\* and a service shutting down schedules none either.
C32_RestartPolicy ==
    [][/\ \A p \in 1..MaxSpawns :
              (ProcessExit(p) /\ ~isShuttingDown) =>
                  LET stable == now - lastRestartTime > 60 * SecondMs
                      counted == IF stable THEN 1 ELSE restartAttempts + 1
                  IN  /\ restartAttempts' = counted
                      /\ lastRestartTime' = now
                      /\ IF counted <= 10
                         THEN /\ restartTimers' = Append(restartTimers, now + 2 * SecondMs)
                              /\ ~isShuttingDown'
                         ELSE /\ isShuttingDown'
                              /\ restartTimers' = restartTimers
       /\ isShuttingDown => Len(restartTimers') <= Len(restartTimers)]_vars

\* the eleventh exit in a row has made the service give up
C32_Witness ==
    /\ restartAttempts = 11
    /\ isShuttingDown
    /\ spawnCount = 11
    /\ alive = {}
    /\ restartTimers = << >>

\* C38: once stop() has been called (isShuttingDown is true) no Claude
\* process is started again: a restart that handleClaudeExit scheduled before
\* the stop, and whose delay ends after it, spawns no process.
C38_NoSpawnAfterStop ==
    [][isShuttingDown => /\ spawnCount' = spawnCount
                         /\ alive' \subseteq alive
                         /\ ptyProcess' = ptyProcess]_vars

\* C39: a 'command' message is written to the Claude PTY only while a Claude
\* process is alive and claudeReady is true: a command that arrives while
\* Claude is starting, or between an exit and the readiness of the restarted
\* process, is queued; the commands are executed in arrival order, each at
\* most once, and none is written to a process that has exited.
C39_CommandsOnlyToLiveClaude ==
    LET commands == SelectSeq(written, LAMBDA w : w.kind = "command")
    IN  /\ \A i \in DOMAIN commands : ~commands[i].exited
        /\ \A i, j \in DOMAIN commands : i < j => commands[i].data < commands[j].data
        /\ \A i \in DOMAIN commandQueue :
               \A j \in DOMAIN commands : commands[j].data < commandQueue[i].data

\* C40: in remote mode a client that connects from a non-local address is
\* unauthenticated until it sends an 'auth' message with the stored key.
\* Until then no message of it reaches handleMessage or the PTY (nothing is
\* written or queued, and a 'command' or 'input' is answered with
\* 'Authentication required'), it receives nothing that is broadcast, and an
\* 'auth' message with any other key leaves it unauthenticated.
C40_UnauthenticatedIsShutOut ==
    /\ [](\A c \in 1..MaxClients :
              ~clients[c].authenticated =>
                  clients[c].got \subseteq
                      {"auth_required", "Authentication required", "auth_failed"})
    /\ [][\A c \in 1..MaxClients :
              /\ (clients[c].socket = "none" /\ clients'[c].socket = "open"
                      /\ remoteMode /\ ~clients'[c].isLocal)
                     => ~clients'[c].authenticated
              /\ \A line \in [type : {"auth", "command", "input", "not JSON"},
                              key : {Str("secret"), Str("guess"), Str(""), Num(7),
                                     Undefined}] :
                     (ClientData(c, line) /\ ~clients[c].authenticated) =>
                         IF line.type = "auth" /\ line.key = Str("secret")
                         THEN clients[c].inMap => clients'[c].authenticated
                         ELSE /\ ~clients'[c].authenticated
                              /\ written' = written
                              /\ commandQueue' = commandQueue
                              /\ enterTimers' = enterTimers
                              /\ (line.type \in {"command", "input"} /\ clients[c].inMap
                                      /\ clients[c].socket = "open")
                                     => "Authentication required" \in clients'[c].got]_vars

\* the first client, from a non-local address, was refused a message and an
\* 'auth' with a wrong key and is still connected, while the second client
\* has received output of Claude and its input was written to the PTY
C40_Witness ==
    /\ remoteMode
    /\ ~clients[1].isLocal /\ ~clients[1].authenticated
    /\ clients[1].socket = "open" /\ clients[1].inMap
    /\ clients[1].got = {"auth_required", "Authentication required", "auth_failed"}
    /\ "output" \in clients[2].got
    /\ written # << >>

====
